---- MODULE Spec2Model ----
(***************************************************************************)
(* State-machine model of the NexiTrade backend risk and execution code:   *)
(*   risk/circuit_breakers.py  CircuitBreakerManager                       *)
(*   paper/broker_paper.py     PaperBroker (with execution/slippage.py and *)
(*                             execution/fees.py)                          *)
(*   risk/limits.py            RiskLimits                                  *)
(*   db/crud.py                order and position rows                     *)
(*   db/database.py            get_db session dependency                   *)
(*   utils/retry.py            retry_with_backoff, as used by              *)
(*   execution/router.py       OrderRouter and exchanges/binance_ccxt.py   *)
(*   portfolio/rebalancer.py   Rebalancer                                  *)
(*   scripts/run_live.py       main, and scripts/run_paper.py main         *)
(*   utils/secrets.py          SecretManager.mask_secret                   *)
(* Time is the value of utils.time.now_utc() in seconds.  Money, prices    *)
(* and quantities are exact rationals held as scaled integers.             *)
(***************************************************************************)
EXTENDS Integers, Naturals, Sequences, FiniteSets, TLC

VARIABLES
    now,                        \* value returned by now_utc(), seconds
    ticks,                      \* number of clock advances so far
    last,                       \* the most recent call and what it returned
    \* ---- CircuitBreakerManager ----
    state,                      \* CircuitBreakerState
    failed_orders_history,      \* list of timestamps
    daily_high_equity,          \* Optional[float]
    last_reset_date,            \* Optional[datetime]
    max_failed_orders_per_hour, \* constructor argument
    dd_high,                    \* history: max of first starting equity and all current equities
    dd_due,                     \* history: some call so far had drawdown from dd_high >= limit
    dd_pure,                    \* history: only same-day check_drawdown trips/no resets so far
    fo_records,                 \* history: every failed-order record since construction/reset
    \* ---- PaperBroker ----
    cash,                       \* self.cash, in 1/MoneyScale units
    positions,                  \* symbol -> [quantity, avg_price]
    orders,                     \* order_id -> OrderResult
    calls,                      \* history: every create_market_order call, in order
    \* ---- RiskLimits ----
    trade_history,              \* list of TradeRecord
    position_exposures,         \* symbol -> exposure value
    max_trades_per_day,         \* constructor argument
    rate_rejected,              \* history: ProbeOrder was refused by the per-minute limit
                                \* since the latest record_trade
    \* ---- db/crud.py ----
    db_orders,                  \* orders table: order_id -> Order row
    db_positions,               \* positions table: id -> Position row
    \* ---- utils/retry.py, execution/router.py ----
    rt_call,                    \* the outermost call in progress
    rt_wrappers,                \* the stack of wrappers it goes through, outermost first
    rt_pc,                      \* where control is: idle, loop, call, result, sleep, done
    rt_depth,                   \* the wrapper that has control (0: the caller)
    rt_attempt,                 \* per wrapper: its local  attempt
    rt_invoked,                 \* history, per wrapper: invocations of the function it wraps
    rt_pending,                 \* the return value or exception on its way up
    rt_outcomes,                \* history: how each innermost invocation ended
    rt_log,                     \* history: on_retry calls and sleeps, in order
    \* ---- db/database.py ----
    session_pc,                 \* position inside get_db: idle, work, commit, except, finally, exit
    session_log,                \* history: commit/rollback/close calls on the current session
    session_work,               \* history: how the unit of work of this use ended
    session_commit,             \* history: how the commit of this use ended
    session_exc,                \* the exception in flight inside get_db
    session_results,            \* history: what each finished use handed to its caller
    \* ---- portfolio/rebalancer.py ----
    rebalancer,                 \* the Rebalancer's fields
    current_allocation,         \* argument: symbol -> current value
    target_allocation,          \* argument: symbol -> target value
    prices,                     \* argument: symbol -> price
    trades,                     \* the returned trade map, NotCalled before the call
    \* ---- scripts/run_live.py, scripts/run_paper.py ----
    script,                     \* which script was started
    argv,                       \* sys.argv[1:]
    config_file,                \* what system.yaml holds: a mode, no mode key, or unreadable
    script_pc,                  \* position inside main()
    config,                     \* the mode of the loaded TradingConfig, "none" before loading
    sleeps,                     \* completed asyncio.sleep(60) calls of the idle loop
    \* ---- utils/secrets.py ----
    secret,                     \* argument: the secret, a sequence of characters
    visible_chars,              \* argument
    masked,                     \* the returned string, NotCalled before the call
    \* ---- risk/stop_rules.py ----
    stops,                      \* self.stops: position_id -> StopLevels
    \* ---- datafeed/ohlcv.py ----
    feed_data,                  \* self.data: symbol -> table, a list of rows in index order
    feed_fetches,               \* history: get_ohlcv calls made so far
    \* ---- asyncio tasks running PaperBroker.create_market_order ----
    tasks                       \* per task: its arguments, where it stands, its result

cbVars == <<state, failed_orders_history, daily_high_equity, last_reset_date,
            max_failed_orders_per_hour, dd_high, dd_due, dd_pure, fo_records>>

pbVars == <<cash, positions, orders, calls>>

rlVars == <<trade_history, position_exposures, max_trades_per_day, rate_rejected>>

dbVars == <<db_orders, db_positions>>

rtVars == <<rt_call, rt_wrappers, rt_pc, rt_depth, rt_attempt, rt_invoked,
            rt_pending, rt_outcomes, rt_log>>

\* what the operations of one object leave alone
sessionVars == <<session_pc, session_log, session_work, session_commit,
                 session_exc, session_results>>

rbVars == <<rebalancer, current_allocation, target_allocation, prices, trades>>

scriptVars == <<script, argv, config_file, script_pc, config, sleeps>>

maskVars == <<secret, visible_chars, masked>>

stopVars == <<stops>>

feedVars == <<feed_data, feed_fetches>>

taskVars == <<tasks>>

\* the state of the scripts and pure functions, which no object touches
pureVars == <<rbVars, scriptVars, maskVars>>

restCB == <<pbVars, rlVars, dbVars, rtVars, sessionVars, pureVars, stopVars, feedVars, taskVars>>
restPB == <<cbVars, rlVars, dbVars, rtVars, sessionVars, pureVars, stopVars, feedVars, taskVars>>
restRL == <<cbVars, pbVars, dbVars, rtVars, sessionVars, pureVars, stopVars, feedVars, taskVars>>
restDB == <<cbVars, pbVars, rlVars, rtVars, sessionVars, pureVars, stopVars, feedVars, taskVars>>
restRT == <<now, ticks, last, cbVars, pbVars, rlVars, dbVars, sessionVars, pureVars, stopVars, feedVars, taskVars>>
restSession == <<now, ticks, last, cbVars, pbVars, rlVars, dbVars, rtVars, pureVars, stopVars, feedVars, taskVars>>
restStops == <<now, ticks, cbVars, pbVars, rlVars, dbVars, rtVars, sessionVars, pureVars, feedVars, taskVars>>
restFeed == <<now, ticks, cbVars, pbVars, rlVars, dbVars, rtVars, sessionVars, pureVars, stopVars, taskVars>>
restTasks == <<now, ticks, cbVars, calls, rlVars, dbVars, rtVars, sessionVars, pureVars, stopVars, feedVars>>

\* the objects, which no pure function touches
objVars == <<now, ticks, cbVars, pbVars, rlVars, dbVars, rtVars, sessionVars, stopVars, feedVars, taskVars>>

vars == <<now, ticks, last, cbVars, pbVars, rlVars, dbVars, rtVars, sessionVars, pureVars, stopVars, feedVars, taskVars>>

----------------------------------------------------------------------------
(* Bounds of the exploration *)

MaxTicks == 3
MaxLimitTicks == 2
MaxFailedThreshold == 3

MaxOrders == 2
MaxQty == 2
MaxTrades == 3
DayLimit == 3
MaxDbTicks == 2
MaxAttempts == 3
MaxUses == 3
MaxSleeps == 2
MaxSecretLen == 3
MaxVisible == 3
MaxStopRange == 4
MaxBars == 2
MaxFetches == 3
MaxCandles == 3
MaxTime == 3
MaxTasks == 2

(* Python's None for optional numeric fields (all real values are >= 0) *)
None == 0 - 1

SecondsPerHour == 60 * 60
SecondsPerDay == 24 * SecondsPerHour
StartOfRun == 23 * SecondsPerHour     \* the process starts at 23:00 UTC of day 0
HalfHour == 30 * 60

Max(a, b) == IF a >= b THEN a ELSE b

\* datetime.date(): the UTC calendar day of a timestamp
Date(t) == t \div SecondsPerDay

NoCall == [op |-> "none"]

----------------------------------------------------------------------------
(* CircuitBreakerManager *)

max_daily_drawdown_bps == 400   \* max_daily_drawdown = 0.04
cooldown_minutes == 60

Equities == {9600, 9700, 10000}

UntriggeredState ==
    [triggered |-> FALSE, trigger_time |-> None, trigger_reason |-> "",
     can_resume_at |-> None]

CBInit ==
    /\ state = UntriggeredState
    /\ failed_orders_history = <<>>
    /\ daily_high_equity = None
    /\ last_reset_date = None
    /\ max_failed_orders_per_hour \in 1..MaxFailedThreshold
    /\ dd_high = None
    /\ dd_due = FALSE
    /\ dd_pure = TRUE
    /\ fo_records = <<>>

\* _trigger without its early return: a later trip overwrites the earlier one
Trigger_Overwrite(st, reason, t) ==
    [triggered |-> TRUE, trigger_time |-> t, trigger_reason |-> reason,
     can_resume_at |-> t + cooldown_minutes * 60]

\* _trigger(reason) applied to state st at time t
Trigger(st, reason, t) ==
    IF st.triggered THEN st
    ELSE [triggered |-> TRUE, trigger_time |-> t, trigger_reason |-> reason,
          can_resume_at |-> t + cooldown_minutes * 60]

\* the comparison written with > where the code has >=
DrawdownExceeded_Strict(high, current) ==
    (high - current) * 10000 > max_daily_drawdown_bps * high

\* drawdown = (high - current) / high, compared with max_daily_drawdown
DrawdownExceeded(high, current) ==
    (high - current) * 10000 >= max_daily_drawdown_bps * high

\* can_trade(): only logs when the cooldown has passed
CanTrade(st) == ~st.triggered

CheckDrawdown(current_equity, starting_equity) ==
    IF state.triggered
    THEN /\ last' = [op |-> "check_drawdown", ret |-> TRUE, was_triggered |-> TRUE]
         /\ UNCHANGED <<cbVars, restCB, now, ticks>>
    ELSE LET rolled == last_reset_date = None \/ Date(now) > Date(last_reset_date)
             high0 == IF rolled THEN starting_equity ELSE daily_high_equity
             high1 == IF high0 = None THEN Max(starting_equity, current_equity)
                      ELSE Max(high0, current_equity)
             trip == DrawdownExceeded(high1, current_equity)
             h == IF dd_high = None THEN Max(starting_equity, current_equity)
                  ELSE Max(dd_high, current_equity)
         IN /\ last_reset_date' = IF rolled THEN now ELSE last_reset_date
            /\ daily_high_equity' = high1
            /\ state' = IF trip THEN Trigger(state, "drawdown", now) ELSE state
            /\ last' = [op |-> "check_drawdown", ret |-> trip, was_triggered |-> FALSE]
            /\ dd_high' = h
            /\ dd_due' = (dd_due \/ (h - current_equity) * 10000 >= max_daily_drawdown_bps * h)
            /\ UNCHANGED <<failed_orders_history, max_failed_orders_per_hour,
                           dd_pure, fo_records, restCB, now, ticks>>

CheckDrawdownCall ==
    \E c \in Equities, s \in Equities : CheckDrawdown(c, s)

\* the pruning written with >= : an entry exactly one hour old is kept
PruneHour_Inclusive(hist, t) == SelectSeq(hist, LAMBDA x : x >= t - SecondsPerHour)

\* the history list after appending now and dropping entries not newer than one hour
PruneHour(hist, t) == SelectSeq(hist, LAMBDA x : x > t - SecondsPerHour)

RecordFailedOrder ==
    IF state.triggered
    THEN /\ last' = [op |-> "record_failed_order", ret |-> TRUE, was_triggered |-> TRUE]
         /\ UNCHANGED <<cbVars, restCB, now, ticks>>
    ELSE LET hist == PruneHour(Append(failed_orders_history, now), now)
             trip == Len(hist) >= max_failed_orders_per_hour
         IN /\ failed_orders_history' = hist
            /\ state' = IF trip THEN Trigger(state, "failed_orders", now) ELSE state
            /\ last' = [op |-> "record_failed_order", ret |-> trip, was_triggered |-> FALSE]
            /\ fo_records' = Append(fo_records, now)
            /\ dd_pure' = (dd_pure /\ ~trip)
            /\ UNCHANGED <<daily_high_equity, last_reset_date, max_failed_orders_per_hour,
                           dd_high, dd_due, restCB, now, ticks>>

ManualKillSwitch ==
    /\ state' = Trigger(state, "manual", now)
    /\ last' = [op |-> "manual_kill_switch", was_triggered |-> state.triggered]
    /\ dd_pure' = (dd_pure /\ state.triggered)
    /\ UNCHANGED <<failed_orders_history, daily_high_equity, last_reset_date,
                   max_failed_orders_per_hour, dd_high, dd_due, fo_records,
                   restCB, now, ticks>>

\* can_trade() resuming by itself once the cooldown has passed
CanTradeCall_AutoResume ==
    LET expired == state.triggered /\ now >= state.can_resume_at
    IN /\ last' = [op |-> "can_trade", ret |-> (CanTrade(state) \/ expired),
                   was_triggered |-> state.triggered]
       /\ state' = IF expired THEN UntriggeredState ELSE state
       /\ UNCHANGED <<failed_orders_history, daily_high_equity, last_reset_date,
                      max_failed_orders_per_hour, dd_high, dd_due, dd_pure, fo_records,
                      restCB, now, ticks>>

CanTradeCall ==
    /\ last' = [op |-> "can_trade", ret |-> CanTrade(state), was_triggered |-> state.triggered]
    /\ UNCHANGED <<cbVars, restCB, now, ticks>>

GetStatus ==
    /\ last' = [op |-> "get_status", was_triggered |-> state.triggered,
                ret |-> [triggered |-> state.triggered,
                         can_trade |-> CanTrade(state),
                         trigger_time |-> state.trigger_time,
                         trigger_reason |-> state.trigger_reason,
                         can_resume_at |-> state.can_resume_at,
                         failed_orders_last_hour |-> Len(failed_orders_history)]]
    /\ UNCHANGED <<cbVars, restCB, now, ticks>>

\* reset() that never looks at the cooldown
Reset_NoCooldown(force) ==
    /\ last' = [op |-> "reset", force |-> force, was_triggered |-> state.triggered,
                at |-> now, resume_at |-> state.can_resume_at]
    /\ IF ~state.triggered
       THEN UNCHANGED <<cbVars, restCB, now, ticks>>
       ELSE /\ state' = UntriggeredState
            /\ failed_orders_history' = <<>>
            /\ fo_records' = <<>>
            /\ dd_pure' = FALSE
            /\ UNCHANGED <<daily_high_equity, last_reset_date,
                           max_failed_orders_per_hour, dd_high, dd_due,
                           restCB, now, ticks>>

\* reset() that also forgets the day's high-water mark
Reset_ClearsHigh(force) ==
    /\ last' = [op |-> "reset", force |-> force, was_triggered |-> state.triggered,
                at |-> now, resume_at |-> state.can_resume_at]
    /\ IF ~state.triggered
          \/ (~force /\ state.can_resume_at # None /\ now < state.can_resume_at)
       THEN UNCHANGED <<cbVars, restCB, now, ticks>>
       ELSE /\ state' = UntriggeredState
            /\ failed_orders_history' = <<>>
            /\ fo_records' = <<>>
            /\ dd_pure' = FALSE
            /\ daily_high_equity' = None
            /\ last_reset_date' = None
            /\ UNCHANGED <<max_failed_orders_per_hour, dd_high, dd_due,
                           restCB, now, ticks>>

Reset(force) ==
    IF ~state.triggered
    THEN /\ last' = [op |-> "reset", force |-> force, was_triggered |-> FALSE,
                     at |-> now, resume_at |-> None]
         /\ UNCHANGED <<cbVars, restCB, now, ticks>>
    ELSE /\ last' = [op |-> "reset", force |-> force, was_triggered |-> TRUE,
                     at |-> now, resume_at |-> state.can_resume_at]
         /\ IF ~force /\ state.can_resume_at # None /\ now < state.can_resume_at
            THEN UNCHANGED <<cbVars, restCB, now, ticks>>
            ELSE /\ state' = UntriggeredState
                 /\ failed_orders_history' = <<>>
                 /\ fo_records' = <<>>
                 /\ dd_pure' = FALSE
                 /\ UNCHANGED <<daily_high_equity, last_reset_date,
                                max_failed_orders_per_hour, dd_high, dd_due,
                                restCB, now, ticks>>

ResetCall == \E force \in BOOLEAN : Reset(force)

\* the wall clock moves on between calls
TickCB ==
    /\ ticks < MaxTicks
    /\ now' = now + HalfHour
    /\ ticks' = ticks + 1
    /\ last' = NoCall
    /\ dd_pure' = (dd_pure /\ (dd_high = None \/ Date(now') = Date(now)))
    /\ UNCHANGED <<state, failed_orders_history, daily_high_equity, last_reset_date,
                   max_failed_orders_per_hour, dd_high, dd_due, fo_records, restCB>>

----------------------------------------------------------------------------
(* PaperBroker.  Prices are in units of 1000, quantities in units of 0.1;  *)
(* a rate r is held as r * RateDen, an execution price as price * RateDen  *)
(* and cash as amount * MoneyScale, so that all arithmetic is exact.       *)

RateDen == 10000 \div 10      \* rates in steps of 10 basis points
MoneyScale == RateDen * RateDen
fees_bps == 10
FeeNum == (fees_bps * RateDen) \div 10000    \* fee_bps / 10000, times RateDen
InitialCash == 150 * MoneyScale              \* initial_cash = 15000

Symbols == {"BTC/USDT", "ETH/USDT"}
Sides == {"buy", "sell"}
Prices == {50, 51}
Slips == {0, 1}           \* abs(random.gauss(...)) / 10000, times RateDen
Quantities == 0..MaxQty

RECURSIVE GCD(_, _)
GCD(a, b) == IF b = 0 THEN a ELSE GCD(b, a % b)

\* float division n / d as a normalised fraction (d > 0, n >= 0)
Frac(n, d) == LET g == GCD(n, d) IN [n |-> n \div g, d |-> d \div g]

Zero == [n |-> 0, d |-> 1]

PBInit ==
    /\ cash = InitialCash
    /\ positions = <<>>
    /\ orders = <<>>
    /\ calls = <<>>

\* SlippageSimulator.apply_slippage: price * (1 +/- abs(slippage)), times RateDen
ApplySlippage(price, side, slippage) ==
    IF side = "buy" THEN price * (RateDen + slippage)
    ELSE price * (RateDen - slippage)

\* a fee calculator that charges nothing
CalculateFee_None(notional) == 0

\* FeesCalculator.calculate_fee(notional, is_maker=False), times MoneyScale
\* for a notional given times RateDen
CalculateFee(notional) == notional * FeeNum

\* the test made against the initial cash instead of the current cash
InsufficientCash_Initial(required_cash, available) == required_cash > InitialCash

\* the test "required_cash > self.cash"
InsufficientCash(required_cash, available) == required_cash > available

\* PaperBroker._update_position; quantity is the signed amount the caller passes
UpdatePosition(pos, symbol, quantity, price, side) ==
    LET entry == IF symbol \in DOMAIN pos THEN pos[symbol]
                 ELSE [quantity |-> 0, avg_price |-> Zero]
    IN IF side = "buy"
       THEN LET total_n == entry.quantity * entry.avg_price.n
                           + quantity * price * entry.avg_price.d
                new_q == entry.quantity + quantity
                new_avg == IF new_q > 0 THEN Frac(total_n, entry.avg_price.d * new_q)
                           ELSE Zero
            IN [s \in DOMAIN pos \cup {symbol} |->
                   IF s = symbol THEN [quantity |-> new_q, avg_price |-> new_avg]
                   ELSE pos[s]]
       ELSE LET new_q == entry.quantity - quantity
            IN IF new_q <= 0
               THEN [s \in DOMAIN pos \ {symbol} |-> pos[s]]
               ELSE [s \in DOMAIN pos \cup {symbol} |->
                        IF s = symbol THEN [quantity |-> new_q, avg_price |-> entry.avg_price]
                        ELSE pos[s]]

Rejected(order_id, symbol, side, quantity, reason) ==
    [order_id |-> order_id, symbol |-> symbol, side |-> side, order_type |-> "market",
     status |-> "rejected", quantity |-> quantity, filled_quantity |-> 0,
     average_fill_price |-> None, fee |-> None, reject_reason |-> reason]

Filled(order_id, symbol, side, quantity, exec_price, fee) ==
    [order_id |-> order_id, symbol |-> symbol, side |-> side, order_type |-> "market",
     status |-> "filled", quantity |-> quantity, filled_quantity |-> quantity,
     average_fill_price |-> exec_price, fee |-> fee, reject_reason |-> ""]

CallRecord(symbol, side, quantity, current_price, slippage, status) ==
    [symbol |-> symbol, side |-> side, quantity |-> quantity, price |-> current_price,
     slippage |-> slippage, status |-> status, cash_before |-> cash,
     held_before |-> symbol \in DOMAIN positions]

CreateMarketOrder(symbol, side, quantity, current_price, slippage) ==
    LET order_id == Len(calls) + 1          \* uuid4(): an id never used before
        exec_price == ApplySlippage(current_price, side, slippage)
        notional == exec_price * quantity
        fee == CalculateFee(notional)
        required_cash == notional * RateDen + fee
        reject == IF side = "buy" THEN InsufficientCash(required_cash, cash)
                  ELSE symbol \notin DOMAIN positions
                       \/ positions[symbol].quantity < quantity
        result == IF reject
                  THEN Rejected(order_id, symbol, side, quantity,
                                IF side = "buy" THEN "insufficient_cash"
                                ELSE "insufficient_position")
                  ELSE Filled(order_id, symbol, side, quantity, exec_price, fee)
    IN /\ Len(calls) < MaxOrders
       /\ last' = [op |-> "create_market_order", ret |-> result]
       /\ calls' = Append(calls, CallRecord(symbol, side, quantity, current_price,
                                            slippage, result.status))
       /\ IF reject
          THEN UNCHANGED <<cash, positions, orders>>
          ELSE /\ cash' = IF side = "buy" THEN cash - required_cash
                          ELSE cash + (notional * RateDen - fee)
               /\ positions' = UpdatePosition(positions, symbol,
                                   IF side = "buy" THEN quantity ELSE 0 - quantity,
                                   exec_price, side)
               /\ orders' = [i \in DOMAIN orders \cup {order_id} |->
                                IF i = order_id THEN result ELSE orders[i]]
       /\ UNCHANGED <<restPB, now, ticks>>

CreateMarketOrderCall ==
    \E symbol \in Symbols, side \in Sides, quantity \in Quantities,
       current_price \in Prices, slippage \in Slips :
        CreateMarketOrder(symbol, side, quantity, current_price, slippage)

\* get_balance(): USD first, then one entry per ledger symbol
GetBalance ==
    /\ last' = [op |-> "get_balance",
                ret |-> [usd |-> cash,
                         held |-> [s \in DOMAIN positions |-> positions[s].quantity]]]
    /\ UNCHANGED <<pbVars, restPB, now, ticks>>

----------------------------------------------------------------------------
(* Tasks of one event loop calling create_market_order on the same broker. *)
(* A task runs from where it stands to its next suspension point (an await *)
(* that yields to the loop) or to its return; the loop then picks any task *)
(* that can run.  The order id of a task's call is the task's number.      *)

TaskArgs == [symbol : {"BTC/USDT"}, side : Sides, quantity : Quantities,
             current_price : {50}, slippage : Slips]

NoResult == [status |-> "none"]

\* an await between the cash or position check and the ledger update
SuspensionPoints_AfterCheck == {"checked"}

\* the awaits in the body of create_market_order: there are none
SuspensionPoints == {}

\* the cash or position check of an order against the broker state st
Refused(st, a) ==
    LET exec_price == ApplySlippage(a.current_price, a.side, a.slippage)
        notional == exec_price * a.quantity
        required_cash == notional * RateDen + CalculateFee(notional)
    IN IF a.side = "buy" THEN InsufficientCash(required_cash, st.cash)
       ELSE a.symbol \notin DOMAIN st.positions
            \/ st.positions[a.symbol].quantity < a.quantity

RejectedTask(a, id) ==
    Rejected(id, a.symbol, a.side, a.quantity,
             IF a.side = "buy" THEN "insufficient_cash" ELSE "insufficient_position")

\* "Execute buy" / "Execute sell" and the result, applied to the broker state st
Settle(st, a, id) ==
    LET exec_price == ApplySlippage(a.current_price, a.side, a.slippage)
        notional == exec_price * a.quantity
        fee == CalculateFee(notional)
    IN [cash |-> IF a.side = "buy" THEN st.cash - (notional * RateDen + fee)
                 ELSE st.cash + (notional * RateDen - fee),
        positions |-> UpdatePosition(st.positions, a.symbol,
                                     IF a.side = "buy" THEN a.quantity ELSE 0 - a.quantity,
                                     exec_price, a.side),
        result |-> Filled(id, a.symbol, a.side, a.quantity, exec_price, fee)]

\* one whole call made with nothing else running
Execute(st, a, id) ==
    IF Refused(st, a)
    THEN [cash |-> st.cash, positions |-> st.positions, result |-> RejectedTask(a, id)]
    ELSE Settle(st, a, id)

TasksInit == tasks = <<>>

\* asyncio.create_task(broker.create_market_order(...))
CreateTask(a) ==
    /\ Len(tasks) < MaxTasks
    /\ tasks' = Append(tasks, [args |-> a, pc |-> "pending", result |-> NoResult])
    /\ last' = [op |-> "create_task"]
    /\ UNCHANGED <<cash, positions, orders, restTasks>>

CreateTaskCall == \E a \in TaskArgs : CreateTask(a)

\* the event loop runs task t up to its next suspension point or its return
RunTask(t) ==
    LET a == tasks[t].args
        st == [cash |-> cash, positions |-> positions]
        done == Settle(st, a, t)
    IN /\ tasks[t].pc # "done"
       /\ last' = [op |-> "run_task", task |-> t]
       /\ IF tasks[t].pc = "pending" /\ Refused(st, a)
          THEN /\ tasks' = [tasks EXCEPT ![t].pc = "done", ![t].result = RejectedTask(a, t)]
               /\ UNCHANGED <<cash, positions, orders>>
          ELSE IF tasks[t].pc = "pending" /\ "checked" \in SuspensionPoints
          THEN /\ tasks' = [tasks EXCEPT ![t].pc = "checked"]
               /\ UNCHANGED <<cash, positions, orders>>
          ELSE /\ tasks' = [tasks EXCEPT ![t].pc = "done", ![t].result = done.result]
               /\ cash' = done.cash
               /\ positions' = done.positions
               /\ orders' = [i \in DOMAIN orders \cup {t} |->
                                IF i = t THEN done.result ELSE orders[i]]
       /\ UNCHANGED <<restTasks>>

RunTaskStep == \E t \in DOMAIN tasks : RunTask(t)

----------------------------------------------------------------------------
(* RiskLimits.  Exposure caps are held in percent.                         *)

max_trades_per_minute == 2
max_position_exposure_pct == 25     \* 0.25
max_total_exposure_pct == 80        \* 0.80

RLSymbols == Symbols \cup {"SOL/USDT"}
ProposalSymbols == {"BTC/USDT", "SOL/USDT"}
Exposures == {0, 1500, 3000, 4000}
PositionValues == {1000, 2000, 2500, 3000}
EquityValues == {0, 10000}

\* the proposal whose refusals rate_rejected follows
ProbeOrder == [symbol |-> "SOL/USDT", position_value |-> 1000, equity |-> 10000]

RLInit ==
    /\ trade_history = <<>>
    /\ position_exposures = <<>>
    /\ max_trades_per_day = DayLimit
    /\ rate_rejected = FALSE

\* RiskLimits built with one daily limit or another, before or after
\* update_position_exposure("BTC/USDT", 1500)
RLInitAnyDayLimit ==
    /\ trade_history = <<>>
    /\ position_exposures \in {<<>>, [s \in {"BTC/USDT"} |-> 1500]}
    /\ max_trades_per_day \in (DayLimit - 1)..DayLimit
    /\ rate_rejected = FALSE

RECURSIVE SumOver(_, _)
\* sum(f.values()) over the keys in S
SumOver(f, S) ==
    IF S = {} THEN 0
    ELSE LET k == CHOOSE x \in S : TRUE IN f[k] + SumOver(f, S \ {k})

\* the cap comparison written with >=
RatioExceeds_Inclusive(value, equity, pct) ==
    IF equity > 0 THEN value * 100 >= pct * equity
    ELSE value * 100 <= pct * equity

\* value / equity > pct / 100 in exact arithmetic, for equity # 0
RatioExceeds(value, equity, pct) ==
    IF equity > 0 THEN value * 100 > pct * equity
    ELSE value * 100 < pct * equity

\* the trades of hist with timestamp newer than t - window
Newer(hist, t, window) == SelectSeq(hist, LAMBDA r : r.timestamp > t - window)

\* the per-minute comparison written with > where the code has >=
CheckRateLimits_Strict(hist, t) ==
    LET kept == Newer(hist, t, SecondsPerDay)
        trades_last_minute == Newer(kept, t, 60)
    IN IF Len(trades_last_minute) > max_trades_per_minute
       THEN [history |-> kept, can_trade |-> FALSE, reason |-> "Trade rate limit exceeded"]
       ELSE IF Len(kept) >= max_trades_per_day
       THEN [history |-> kept, can_trade |-> FALSE, reason |-> "Daily trade limit exceeded"]
       ELSE [history |-> kept, can_trade |-> TRUE, reason |-> ""]

\* RiskLimits._check_rate_limits(now): the pruned history and the verdict
CheckRateLimits(hist, t) ==
    LET kept == Newer(hist, t, SecondsPerDay)
        trades_last_minute == Newer(kept, t, 60)
    IN IF Len(trades_last_minute) >= max_trades_per_minute
       THEN [history |-> kept, can_trade |-> FALSE, reason |-> "Trade rate limit exceeded"]
       ELSE IF Len(kept) >= max_trades_per_day
       THEN [history |-> kept, can_trade |-> FALSE, reason |-> "Daily trade limit exceeded"]
       ELSE [history |-> kept, can_trade |-> TRUE, reason |-> ""]

Verdict(can_place, reason) == [can_place |-> can_place, reason |-> reason, raised |-> ""]
Raised(exc) == [can_place |-> FALSE, reason |-> "", raised |-> exc]

\* the total taken from the tracked exposures alone, the proposal left out
ExposureVerdict_WithoutProposal(symbol, position_value, equity) ==
    LET current_exposure == IF symbol \in DOMAIN position_exposures
                            THEN position_exposures[symbol] ELSE 0
        new_exposure == current_exposure + position_value
        total_exposure == SumOver(position_exposures, DOMAIN position_exposures)
    IN IF equity = 0 THEN Raised("ZeroDivisionError")
       ELSE IF RatioExceeds(new_exposure, equity, max_position_exposure_pct)
       THEN Verdict(FALSE, "Position exposure limit exceeded")
       ELSE IF RatioExceeds(total_exposure, equity, max_total_exposure_pct)
       THEN Verdict(FALSE, "Total exposure limit exceeded")
       ELSE Verdict(TRUE, "")

\* the exposure checks of can_place_order, after the rate check has passed
ExposureVerdict(symbol, position_value, equity) ==
    LET current_exposure == IF symbol \in DOMAIN position_exposures
                            THEN position_exposures[symbol] ELSE 0
        new_exposure == current_exposure + position_value
        total_exposure == SumOver(position_exposures, DOMAIN position_exposures)
                          + position_value
    IN IF equity = 0 THEN Raised("ZeroDivisionError")
       ELSE IF RatioExceeds(new_exposure, equity, max_position_exposure_pct)
       THEN Verdict(FALSE, "Position exposure limit exceeded")
       ELSE IF RatioExceeds(total_exposure, equity, max_total_exposure_pct)
       THEN Verdict(FALSE, "Total exposure limit exceeded")
       ELSE Verdict(TRUE, "")

CanPlaceOrder(symbol, side, position_value, equity) ==
    LET rate == CheckRateLimits(trade_history, now)
        proposal == [symbol |-> symbol, position_value |-> position_value,
                     equity |-> equity]
        ret == IF ~rate.can_trade THEN Verdict(FALSE, rate.reason)
               ELSE ExposureVerdict(symbol, position_value, equity)
    IN /\ trade_history' = rate.history
       /\ last' = [op |-> "can_place_order", proposal |-> proposal, ret |-> ret]
       /\ rate_rejected' = (rate_rejected \/ (proposal = ProbeOrder
                                              /\ ret.reason = "Trade rate limit exceeded"))
       /\ UNCHANGED <<position_exposures, max_trades_per_day, restRL, now, ticks>>

CanPlaceOrderCall ==
    \E symbol \in ProposalSymbols, side \in {"buy"}, position_value \in PositionValues,
       equity \in EquityValues :
        CanPlaceOrder(symbol, side, position_value, equity)

RecordTrade(symbol, side) ==
    /\ Len(trade_history) < MaxTrades
    /\ trade_history' = Append(trade_history,
                               [timestamp |-> now, symbol |-> symbol, side |-> side])
    /\ last' = [op |-> "record_trade"]
    /\ rate_rejected' = FALSE
    /\ UNCHANGED <<position_exposures, max_trades_per_day, restRL, now, ticks>>

RecordTradeCall == \E symbol \in {"BTC/USDT"}, side \in {"buy"} : RecordTrade(symbol, side)

UpdatePositionExposure(symbol, exposure) ==
    /\ position_exposures' =
          IF exposure <= 0
          THEN [s \in DOMAIN position_exposures \ {symbol} |-> position_exposures[s]]
          ELSE [s \in DOMAIN position_exposures \cup {symbol} |->
                   IF s = symbol THEN exposure ELSE position_exposures[s]]
    /\ last' = [op |-> "update_position_exposure", symbol |-> symbol,
                exposure |-> exposure]
    /\ UNCHANGED <<trade_history, max_trades_per_day, rate_rejected, restRL, now, ticks>>

UpdatePositionExposureCall ==
    \E symbol \in Symbols, exposure \in Exposures :
        UpdatePositionExposure(symbol, exposure)

\* the wall clock moves on between calls
TickRL ==
    /\ ticks < MaxLimitTicks
    /\ \E d \in {60, SecondsPerDay} : now' = now + d
    /\ ticks' = ticks + 1
    /\ last' = NoCall
    /\ UNCHANGED <<rlVars, restRL>>

----------------------------------------------------------------------------
(* db/crud.py: the orders and positions tables as seen through one session. *)
(* datetime.utcnow() is the clock  now ; prices and quantities are integers. *)

OrderStatuses == {"pending", "open", "filled", "partially_filled",
                  "cancelled", "rejected", "expired"}

OrderIds == {"ord-1"}
UnknownOrderId == "ord-9"
FillQuantities == {None, 1}         \* filled_quantity argument, None when omitted
FillPrices == {None, 50}            \* average_fill_price argument, None when omitted

PositionIds == {1}
UnknownPositionId == 9
EntryPrice == 50
PositionQuantities == {1, 2}
ClosePrices == {49, 52}

DBInit ==
    /\ db_orders = <<>>
    /\ db_positions = <<>>

\* create_order: Order(**order_data) with the column defaults
CreateOrder(order_id, status) ==
    /\ order_id \notin DOMAIN db_orders
    /\ db_orders' = [o \in DOMAIN db_orders \cup {order_id} |->
                        IF o = order_id
                        THEN [status |-> status, filled_quantity |-> 0,
                              average_fill_price |-> None, filled_at |-> None,
                              cancelled_at |-> None, updated_at |-> now]
                        ELSE db_orders[o]]
    /\ last' = [op |-> "create_order", order_id |-> order_id]
    /\ UNCHANGED <<db_positions, restDB, now, ticks>>

CreateOrderCall ==
    \E order_id \in OrderIds, status \in {"pending", "open"} : CreateOrder(order_id, status)

UpdateOrderStatus(order_id, status, filled_quantity, average_fill_price) ==
    IF order_id \notin DOMAIN db_orders
    THEN /\ last' = [op |-> "update_order_status", order_id |-> order_id,
                     status |-> status, found |-> FALSE]
         /\ UNCHANGED <<dbVars, restDB, now, ticks>>
    ELSE LET order == db_orders[order_id]
             updated ==
                [status |-> status,
                 updated_at |-> now,
                 filled_quantity |-> IF filled_quantity # None THEN filled_quantity
                                     ELSE order.filled_quantity,
                 average_fill_price |-> IF average_fill_price # None THEN average_fill_price
                                        ELSE order.average_fill_price,
                 filled_at |-> IF status = "filled" THEN now ELSE order.filled_at,
                 cancelled_at |-> IF status = "cancelled" THEN now ELSE order.cancelled_at]
         IN /\ db_orders' = [db_orders EXCEPT ![order_id] = updated]
            /\ last' = [op |-> "update_order_status", order_id |-> order_id,
                        status |-> status, found |-> TRUE]
            /\ UNCHANGED <<db_positions, restDB, now, ticks>>

UpdateOrderStatusCall ==
    \E order_id \in OrderIds \cup {UnknownOrderId}, status \in OrderStatuses,
       filled_quantity \in FillQuantities, average_fill_price \in FillPrices :
        UpdateOrderStatus(order_id, status, filled_quantity, average_fill_price)

\* create_position: Position(**position_data) with the column defaults
CreatePosition(position_id, side, quantity) ==
    /\ position_id \notin DOMAIN db_positions
    /\ db_positions' = [p \in DOMAIN db_positions \cup {position_id} |->
                           IF p = position_id
                           THEN [side |-> side, quantity |-> quantity,
                                 entry_price |-> EntryPrice, current_price |-> None,
                                 realized_pnl |-> 0, is_open |-> TRUE,
                                 closed_at |-> None, updated_at |-> now]
                           ELSE db_positions[p]]
    /\ last' = [op |-> "create_position", position_id |-> position_id]
    /\ UNCHANGED <<db_orders, restDB, now, ticks>>

CreatePositionCall ==
    \E position_id \in PositionIds, side \in Sides, quantity \in PositionQuantities :
        CreatePosition(position_id, side, quantity)

ClosePosition(position_id, close_price) ==
    IF position_id \notin DOMAIN db_positions
    THEN /\ last' = [op |-> "close_position", position_id |-> position_id, found |-> FALSE]
         /\ UNCHANGED <<dbVars, restDB, now, ticks>>
    ELSE LET position == db_positions[position_id]
             pnl == IF position.side = "buy"
                    THEN (close_price - position.entry_price) * position.quantity
                    ELSE (position.entry_price - close_price) * position.quantity
         IN /\ db_positions' =
                   [db_positions EXCEPT ![position_id] =
                       [position EXCEPT !.is_open = FALSE,
                                        !.current_price = close_price,
                                        !.closed_at = now,
                                        !.updated_at = now,
                                        !.realized_pnl = pnl]]
            /\ last' = [op |-> "close_position", position_id |-> position_id, found |-> TRUE]
            /\ UNCHANGED <<db_orders, restDB, now, ticks>>

ClosePositionCall ==
    \E position_id \in PositionIds \cup {UnknownPositionId}, close_price \in ClosePrices :
        ClosePosition(position_id, close_price)

\* the wall clock moves on between calls
TickDB ==
    /\ ticks < MaxDbTicks
    /\ now' = now + 60
    /\ ticks' = ticks + 1
    /\ last' = NoCall
    /\ UNCHANGED <<dbVars, restDB>>

----------------------------------------------------------------------------
(* utils/retry.py: retry_with_backoff.  sync_wrapper and async_wrapper are   *)
(* the same loop; one call is followed step by step through the wrappers it *)
(* is nested in.  execution/router.py and exchanges/binance_ccxt.py stack    *)
(* two of them around the venue call.                                        *)

base_delay == 1
exponential_base == 2
max_delay == 60
MaxDelays == {1, max_delay}          \* max_delay arguments of a decorated function
router_max_attempts == 3
binance_max_attempts == 3

ExceptionFilters == {"all", "network"}         \* the  exceptions  tuple
ExceptionKinds == {"network", "other"}         \* what the wrapped function raises
NoOutcome == [kind |-> "none"]

\* @retry_with_backoff(max_attempts, max_delay=..., exceptions=..., on_retry=...)
RetryWrapper(n, exceptions, on_retry, maxd) ==
    [retry |-> TRUE, max_attempts |-> n, exceptions |-> exceptions,
     on_retry |-> on_retry, max_delay |-> maxd]

\* a method that calls through without a decorator
PlainCall ==
    [retry |-> FALSE, max_attempts |-> 1, exceptions |-> "all",
     on_retry |-> FALSE, max_delay |-> max_delay]

Adapters == {"binance", "uniswap"}

\* the wrappers between the caller of an OrderRouter method and the venue call
RouterStack(op, adapter) ==
    LET outer == IF op = "cancel_order" THEN PlainCall
                 ELSE RetryWrapper(router_max_attempts, "all", FALSE, max_delay)
    IN IF adapter = "binance"
       THEN <<outer, RetryWrapper(binance_max_attempts, "all", FALSE, max_delay)>>
       ELSE <<outer>>

RECURSIVE Pow(_, _)
Pow(b, e) == IF e = 0 THEN 1 ELSE b * Pow(b, e - 1)

Min(a, b) == IF a <= b THEN a ELSE b

\* the delay without its cap
Delay_Uncapped(w, attempt) == base_delay * Pow(exponential_base, attempt - 1)

\* delay = min(base_delay * (exponential_base ** (attempt - 1)), max_delay)
Delay(w, attempt) == Min(base_delay * Pow(exponential_base, attempt - 1), w.max_delay)

\* except exceptions as e
Matches(exc, exceptions) == exceptions = "all" \/ exc = exceptions

\* the test that stops the retries, written with > where the code has >=
Exhausted_Late(attempt, n) == attempt > n

\* if attempt >= max_attempts: raise
Exhausted(attempt, n) == attempt >= n

RTInit ==
    /\ rt_call = [op |-> "none"]
    /\ rt_wrappers = <<>>
    /\ rt_pc = "idle"
    /\ rt_depth = 0
    /\ rt_attempt = <<>>
    /\ rt_invoked = <<>>
    /\ rt_pending = NoOutcome
    /\ rt_outcomes = <<>>
    /\ rt_log = <<>>

\* the caller calls a decorated function or a router method
StartCall(call, wrappers) ==
    /\ rt_call' = call
    /\ rt_wrappers' = wrappers
    /\ rt_pc' = "loop"
    /\ rt_depth' = 1
    /\ rt_attempt' = [i \in 1..Len(wrappers) |-> 0]
    /\ rt_invoked' = [i \in 1..Len(wrappers) |-> 0]
    /\ rt_pending' = NoOutcome
    /\ rt_outcomes' = <<>>
    /\ rt_log' = <<>>
    /\ UNCHANGED restRT

CallWrapped ==
    /\ rt_pc \in {"idle", "done"}
    /\ \E n \in 0..MaxAttempts, exceptions \in ExceptionFilters, on_retry \in BOOLEAN,
          maxd \in MaxDelays :
           StartCall([op |-> "wrapped"], <<RetryWrapper(n, exceptions, on_retry, maxd)>>)

CallRouter ==
    /\ rt_pc \in {"idle", "done"}
    /\ \E op \in {"execute_market_order", "execute_limit_order", "cancel_order"},
          adapter \in Adapters :
           StartCall([op |-> op, adapter |-> adapter], RouterStack(op, adapter))

\* hand the pending result to the wrapper above, or to the caller
PassUp(outcome) ==
    /\ rt_pending' = outcome
    /\ rt_depth' = rt_depth - 1
    /\ rt_pc' = IF rt_depth = 1 THEN "done" ELSE "result"

\* while attempt < max_attempts: ... ; raise RuntimeError after the loop
LoopHead ==
    /\ rt_pc = "loop"
    /\ LET w == rt_wrappers[rt_depth]
       IN IF ~w.retry \/ rt_attempt[rt_depth] < w.max_attempts
          THEN /\ rt_pc' = "call"
               /\ UNCHANGED <<rt_depth, rt_pending>>
          ELSE PassUp([kind |-> "raise", exc |-> "runtime_error", at |-> 0])
    /\ UNCHANGED <<rt_call, rt_wrappers, rt_attempt, rt_invoked, rt_outcomes, rt_log, restRT>>

\* func(*args, **kwargs): the next wrapper down, or the wrapped function itself
Invoke ==
    /\ rt_pc = "call"
    /\ rt_invoked' = [rt_invoked EXCEPT ![rt_depth] = @ + 1]
    /\ IF rt_depth < Len(rt_wrappers)
       THEN /\ rt_depth' = rt_depth + 1
            /\ rt_attempt' = [rt_attempt EXCEPT ![rt_depth + 1] = 0]
            /\ rt_pc' = "loop"
            /\ UNCHANGED <<rt_pending, rt_outcomes>>
       ELSE /\ \E outcome \in {[kind |-> "return", exc |-> "none"]}
                         \cup {[kind |-> "raise", exc |-> e] : e \in ExceptionKinds} :
                 /\ rt_pending' = [kind |-> outcome.kind, exc |-> outcome.exc,
                                   at |-> rt_invoked'[rt_depth]]
                 /\ rt_outcomes' = Append(rt_outcomes, outcome)
            /\ rt_pc' = "result"
            /\ UNCHANGED <<rt_depth, rt_attempt>>
    /\ UNCHANGED <<rt_call, rt_wrappers, rt_log, restRT>>

\* return the value; or  except exceptions as e: attempt += 1 ...
Handle ==
    /\ rt_pc = "result"
    /\ LET w == rt_wrappers[rt_depth]
           attempt == rt_attempt[rt_depth] + 1
       IN IF rt_pending.kind = "return" \/ ~w.retry \/ ~Matches(rt_pending.exc, w.exceptions)
          THEN /\ PassUp(rt_pending)
               /\ UNCHANGED <<rt_attempt, rt_log>>
          ELSE /\ rt_attempt' = [rt_attempt EXCEPT ![rt_depth] = attempt]
               /\ IF Exhausted(attempt, w.max_attempts)
                  THEN /\ PassUp(rt_pending)
                       /\ UNCHANGED rt_log
                  ELSE /\ rt_log' = rt_log \o
                              (IF w.on_retry
                               THEN <<[ev |-> "on_retry", depth |-> rt_depth,
                                       exc |-> rt_pending.exc, at |-> rt_pending.at,
                                       attempt |-> attempt]>>
                               ELSE <<>>) \o
                              <<[ev |-> "sleep", depth |-> rt_depth,
                                 delay |-> Delay(w, attempt)]>>
                       /\ rt_pc' = "sleep"
                       /\ UNCHANGED <<rt_depth, rt_pending>>
    /\ UNCHANGED <<rt_call, rt_wrappers, rt_invoked, rt_outcomes, restRT>>

\* time.sleep(delay) / await asyncio.sleep(delay) returns
Sleep ==
    /\ rt_pc = "sleep"
    /\ rt_pc' = "loop"
    /\ rt_pending' = NoOutcome
    /\ UNCHANGED <<rt_call, rt_wrappers, rt_depth, rt_attempt, rt_invoked,
                   rt_outcomes, rt_log, restRT>>

\* the steps of a call in progress
RetryStep == LoopHead \/ Invoke \/ Handle \/ Sleep

----------------------------------------------------------------------------
(* db/database.py: one use of the get_db dependency after another.  The unit *)
(* of work runs while get_db is suspended at its yield; an exception of the  *)
(* unit of work is thrown into get_db there.  An awaited call can end with   *)
(* an Exception or with a BaseException that is not one (CancelledError).    *)
(* rollback() and close() are taken to return normally.                      *)

Endings == {"ok", "error", "cancelled"}

\* no exception in flight; an exception is <<where it was raised, its kind>>
NoException == <<"none", "ok">>

\* except Exception, written as a bare except
Caught_Bare(ending) == ending # "ok"

\* except Exception:
Caught(ending) == ending = "error"

SessionInit ==
    /\ session_pc = "idle"
    /\ session_log = <<>>
    /\ session_work = "none"
    /\ session_commit = "none"
    /\ session_exc = NoException
    /\ session_results = <<>>

\* async with AsyncSessionLocal() as session: try: yield session
OpenSession ==
    /\ session_pc = "idle"
    /\ Len(session_results) < MaxUses
    /\ session_pc' = "work"
    /\ session_log' = <<>>
    /\ session_work' = "none"
    /\ session_commit' = "none"
    /\ session_exc' = NoException
    /\ UNCHANGED <<session_results, restSession>>

\* where control goes when an awaited call inside the try block has ended
AfterTry(ending, origin) ==
    /\ session_exc' = IF ending = "ok" THEN NoException ELSE <<origin, ending>>
    /\ session_pc' = IF Caught(ending) THEN "except" ELSE "finally"

\* the unit of work ends; on success  await session.commit()  is called
WorkEnds ==
    /\ session_pc = "work"
    /\ \E ending \in Endings :
          /\ session_work' = ending
          /\ IF ending = "ok"
             THEN /\ session_log' = Append(session_log, "commit")
                  /\ session_pc' = "commit"
                  /\ UNCHANGED session_exc
             ELSE /\ AfterTry(ending, "work")
                  /\ UNCHANGED session_log
    /\ UNCHANGED <<session_commit, session_results, restSession>>

\* await session.commit() ends
CommitEnds ==
    /\ session_pc = "commit"
    /\ \E ending \in Endings :
          /\ session_commit' = ending
          /\ AfterTry(ending, "commit")
    /\ UNCHANGED <<session_log, session_work, session_results, restSession>>

\* except Exception: await session.rollback(); raise
Rollback ==
    /\ session_pc = "except"
    /\ session_log' = Append(session_log, "rollback")
    /\ session_pc' = "finally"
    /\ UNCHANGED <<session_work, session_commit, session_exc, session_results, restSession>>

\* finally: await session.close()
Close ==
    /\ session_pc = "finally"
    /\ session_log' = Append(session_log, "close")
    /\ session_pc' = "exit"
    /\ UNCHANGED <<session_work, session_commit, session_exc, session_results, restSession>>

\* leaving  async with : the session closes itself, the caller gets the outcome
ExitSession ==
    /\ session_pc = "exit"
    /\ session_log' = Append(session_log, "close")
    /\ session_pc' = "idle"
    /\ session_results' = Append(session_results, session_exc)
    /\ UNCHANGED <<session_work, session_commit, session_exc, restSession>>

----------------------------------------------------------------------------
(* portfolio/rebalancer.py.  Values are whole currency units; the threshold *)
(* and the fee are held in basis points, so that all comparisons are exact. *)

rebalance_threshold_bps == 200       \* rebalance_threshold_pct = 0.02
RbFees == {10, 5000, 6000}           \* fee_bps
RbSymbols == {"BTC", "ETH"}
CurrentValues == {-5000, 5000}      \* a short position counts negative
TargetValues == {4000, 5000, 5100, 5200}
RbPrices == {50}

NotCalled == [called |-> FALSE]

\* the dicts over some of the symbols S with values in V
Dicts(S, V) == UNION {[D -> V] : D \in SUBSET S}

\* d.get(key, 0.0)
Get(d, key) == IF key \in DOMAIN d THEN d[key] ELSE 0

Abs(x) == IF x < 0 THEN 0 - x ELSE x

\* the threshold test written with <=
BelowThreshold_Inclusive(delta_value, total_value, threshold_bps) ==
    IF total_value > 0
    THEN Abs(delta_value) * 10000 <= threshold_bps * total_value
    ELSE 0 < threshold_bps

\* deviation_pct < self.rebalance_threshold_pct, deviation_pct being 0.0
\* when total_value is not positive
BelowThreshold(delta_value, total_value, threshold_bps) ==
    IF total_value > 0
    THEN Abs(delta_value) * 10000 < threshold_bps * total_value
    ELSE 0 < threshold_bps

\* the cost test written with <=
CostTooHigh_Inclusive(delta_value, fee_bps) ==
    Abs(delta_value) * 10000 <= Abs(delta_value) * fee_bps * 2

\* abs(delta_value) < estimated_cost * 2
CostTooHigh(delta_value, fee_bps) ==
    Abs(delta_value) * 10000 < Abs(delta_value) * fee_bps * 2

\* one pass of the loop body: whether symbol gets an entry
Emits(r, current, target, px, symbol) ==
    LET delta_value == Get(target, symbol) - Get(current, symbol)
        total_value == SumOver(current, DOMAIN current)
    IN /\ ~BelowThreshold(delta_value, total_value, r.rebalance_threshold_bps)
       /\ ~(r.cost_aware /\ CostTooHigh(delta_value, r.fee_bps))
       /\ Get(px, symbol) # 0

\* Rebalancer.calculate_rebalance_trades
CalculateRebalanceTrades(r, current, target, px) ==
    LET symbols == DOMAIN current \cup DOMAIN target
        emitted == {symbol \in symbols : Emits(r, current, target, px, symbol)}
    IN [symbol \in emitted |->
           LET delta_value == Get(target, symbol) - Get(current, symbol)
               price == px[symbol]
           IN [current_value |-> Get(current, symbol),
               target_value |-> Get(target, symbol),
               delta_value |-> delta_value,
               delta_quantity |-> Frac(Abs(delta_value), price),
               side |-> IF delta_value > 0 THEN "buy" ELSE "sell",
               price |-> price]]

\* deviation_pct >= self.rebalance_threshold_pct, deviation_pct being
\* delta_value / total_value for a total_value that is not zero
AtThreshold(delta_value, total_value, threshold_bps) ==
    IF total_value > 0
    THEN delta_value * 10000 >= threshold_bps * total_value
    ELSE delta_value * 10000 <= threshold_bps * total_value

\* Rebalancer.should_rebalance
ShouldRebalance(r, current, target) ==
    LET total_value == SumOver(current, DOMAIN current)
        symbols == DOMAIN current \cup DOMAIN target
    IN IF total_value = 0 THEN FALSE
       ELSE \E symbol \in symbols :
               LET delta_value == Abs(Get(target, symbol) - Get(current, symbol))
               IN AtThreshold(delta_value, total_value, r.rebalance_threshold_bps)

\* no Rebalancer call is under study
RBIdle ==
    /\ rebalancer = [rebalance_threshold_bps |-> rebalance_threshold_bps,
                     cost_aware |-> TRUE, fee_bps |-> 10]
    /\ current_allocation = <<>>
    /\ target_allocation = <<>>
    /\ prices = <<>>
    /\ trades = NotCalled

RBInit ==
    /\ rebalancer \in [rebalance_threshold_bps : {rebalance_threshold_bps},
                       cost_aware : BOOLEAN, fee_bps : RbFees]
    /\ current_allocation \in Dicts(RbSymbols, CurrentValues)
    /\ target_allocation \in Dicts(RbSymbols, TargetValues)
    /\ prices \in Dicts(RbSymbols, RbPrices)
    /\ trades = NotCalled

CalculateRebalanceTradesCall ==
    /\ trades = NotCalled
    /\ trades' = [called |-> TRUE,
                  ret |-> CalculateRebalanceTrades(rebalancer, current_allocation,
                                                   target_allocation, prices)]
    /\ last' = [op |-> "calculate_rebalance_trades"]
    /\ UNCHANGED <<rebalancer, current_allocation, target_allocation, prices,
                   objVars, scriptVars, maskVars>>

ShouldRebalanceCall ==
    /\ last' = [op |-> "should_rebalance",
                ret |-> ShouldRebalance(rebalancer, current_allocation,
                                        target_allocation)]
    /\ UNCHANGED <<rbVars, objVars, scriptVars, maskVars>>

----------------------------------------------------------------------------
(* scripts/run_live.py and scripts/run_paper.py: main() step by step *)

Scripts == {"run_live", "run_paper"}
SafetyFlag == "--i-know-what-im-doing"
Args == {SafetyFlag, "--i-know", "--verbose"}
ArgLines == {<<>>} \cup {<<a>> : a \in Args} \cup {<<a, b>> : a \in Args, b \in Args}
Modes == {"backtest", "paper", "live"}
ConfigFiles == Modes \cup {"default", "unreadable"}

\* "--i-know-what-im-doing" in sys.argv
FlagGiven(line) == \E i \in DOMAIN line : line[i] = SafetyFlag

\* TradingConfig.mode: self.config.get("mode", "paper")
ModeOf(file) == IF file = "default" THEN "paper" ELSE file

\* the mode test accepting everything but a backtest configuration
ModeRefused_BacktestOnly(name, mode) == mode = "backtest"

\* if config.mode != "live": return  (run_paper: != "paper")
ModeRefused(name, mode) == mode # (IF name = "run_live" THEN "live" ELSE "paper")

\* no script is under study
ScriptIdle ==
    /\ script = "none"
    /\ argv = <<>>
    /\ config_file = "default"
    /\ script_pc = "none"
    /\ config = "none"
    /\ sleeps = 0

ScriptInit ==
    /\ script \in Scripts
    /\ argv \in ArgLines
    /\ config_file \in ConfigFiles
    /\ script_pc = "main"
    /\ config = "none"
    /\ sleeps = 0

\* run_live: the command line flag check; run_paper has none
CheckFlag ==
    /\ script_pc = "main"
    /\ script_pc' = IF script = "run_live" /\ ~FlagGiven(argv) THEN "returned" ELSE "load"
    /\ UNCHANGED <<script, argv, config_file, config, sleeps, last, objVars, rbVars, maskVars>>

\* config = load_trading_config(): opens and parses system.yaml
LoadTradingConfig ==
    /\ script_pc = "load"
    /\ IF config_file = "unreadable"
       THEN /\ script_pc' = "raised"
            /\ UNCHANGED config
       ELSE /\ script_pc' = "mode"
            /\ config' = ModeOf(config_file)
    /\ UNCHANGED <<script, argv, config_file, sleeps, last, objVars, rbVars, maskVars>>

\* the mode check, then the "trading started" log and the idle loop
CheckMode ==
    /\ script_pc = "mode"
    /\ script_pc' = IF ModeRefused(script, config) THEN "returned" ELSE "idle"
    /\ UNCHANGED <<script, argv, config_file, config, sleeps, last, objVars, rbVars, maskVars>>

\* while True: await asyncio.sleep(60)
IdleSleep ==
    /\ script_pc = "idle"
    /\ sleeps < MaxSleeps
    /\ sleeps' = sleeps + 1
    /\ UNCHANGED <<script, argv, config_file, script_pc, config, last, objVars, rbVars, maskVars>>

\* except KeyboardInterrupt
Interrupt ==
    /\ script_pc = "idle"
    /\ script_pc' = "stopped"
    /\ UNCHANGED <<script, argv, config_file, config, sleeps, last, objVars, rbVars, maskVars>>

----------------------------------------------------------------------------
(* utils/secrets.py: SecretManager.mask_secret.  Strings are sequences of   *)
(* characters.                                                               *)

Chars == {"a", "b"}
Stars == <<"*", "*", "*", "*">>

\* the strings over Chars of length at most n
Strings(n) == UNION {[1..k -> Chars] : k \in 0..n}

\* Python's s[-n:] for n >= 0: -0 is 0, so s[-0:] is s[0:], the whole string
Slice(s, n) ==
    LET start == IF n = 0 THEN 0
                 ELSE IF Len(s) - n < 0 THEN 0 ELSE Len(s) - n
    IN SubSeq(s, start + 1, Len(s))

MaskSecret(s, n) ==
    IF s = <<>> THEN Stars
    ELSE IF Len(s) <= n THEN Stars
    ELSE Stars \o Slice(s, n)

\* no mask_secret call is under study
MaskIdle ==
    /\ secret = <<>>
    /\ visible_chars = 4
    /\ masked = NotCalled

MaskInit ==
    /\ secret \in Strings(MaxSecretLen)
    /\ visible_chars \in 0..MaxVisible
    /\ masked = NotCalled

MaskSecretCall ==
    /\ masked = NotCalled
    /\ masked' = [called |-> TRUE, ret |-> MaskSecret(secret, visible_chars)]
    /\ last' = [op |-> "mask_secret"]
    /\ UNCHANGED <<secret, visible_chars, objVars, rbVars, scriptVars>>

----------------------------------------------------------------------------
(* risk/stop_rules.py: StopLossManager.  Prices are whole numbers. *)

StopIds == {"pos-1"}
UnknownStopId == "pos-9"
LowestStopPrice == 8
StopPrices == LowestStopPrice..(LowestStopPrice + MaxStopRange)
StopLossArgs == {None, 9, 11}          \* stop_loss argument, None when omitted
Distances == {None, 2}                 \* trailing_stop_distance argument

StopsInit == stops = <<>>

SetStops(position_id, entry_price, side, stop_loss, take_profit, trailing_stop_distance) ==
    /\ stops' = [p \in DOMAIN stops \cup {position_id} |->
                    IF p = position_id
                    THEN [stop_loss |-> stop_loss,
                          take_profit |-> take_profit,
                          trailing_stop_distance |-> trailing_stop_distance,
                          highest_price |-> IF side = "buy" THEN entry_price ELSE None,
                          lowest_price |-> IF side = "sell" THEN entry_price ELSE None]
                    ELSE stops[p]]
    /\ last' = [op |-> "set_stops", position_id |-> position_id, side |-> side]
    /\ UNCHANGED <<restStops>>

SetStopsCall ==
    \E position_id \in StopIds, entry_price \in StopPrices, side \in Sides,
       stop_loss \in StopLossArgs, trailing_stop_distance \in Distances :
        SetStops(position_id, entry_price, side, stop_loss, None, trailing_stop_distance)

\* the extreme test: a new high for a long, a new low for a short
NewExtreme(side, current_price, extreme) ==
    extreme = None \/ (IF side = "buy" THEN current_price > extreme
                       ELSE current_price < extreme)

\* the candidate stop applied whatever the existing stop is
StopImproves_Always(side, new_stop, stop_loss) == TRUE

\* stops.stop_loss is None or new_stop > stops.stop_loss  (< for a short)
StopImproves(side, new_stop, stop_loss) ==
    stop_loss = None \/ (IF side = "buy" THEN new_stop > stop_loss
                         ELSE new_stop < stop_loss)

UpdateTrailingStop(position_id, current_price, side) ==
    LET call == [op |-> "update_trailing_stop", position_id |-> position_id,
                 current_price |-> current_price, side |-> side]
        ret(v) == [x \in DOMAIN call \cup {"ret"} |-> IF x = "ret" THEN v ELSE call[x]]
    IN /\ IF position_id \notin DOMAIN stops
          THEN /\ last' = ret(None)
               /\ UNCHANGED stops
          ELSE LET s == stops[position_id]
                   extreme == IF side = "buy" THEN s.highest_price ELSE s.lowest_price
                   new_stop == IF side = "buy"
                               THEN current_price - s.trailing_stop_distance
                               ELSE current_price + s.trailing_stop_distance
                   moved == IF side = "buy"
                            THEN [s EXCEPT !.highest_price = current_price]
                            ELSE [s EXCEPT !.lowest_price = current_price]
               IN IF s.trailing_stop_distance = None
                     \/ ~NewExtreme(side, current_price, extreme)
                  THEN /\ last' = ret(None)
                       /\ UNCHANGED stops
                  ELSE IF StopImproves(side, new_stop, s.stop_loss)
                  THEN /\ stops' = [stops EXCEPT ![position_id] =
                                       [moved EXCEPT !.stop_loss = new_stop]]
                       /\ last' = ret(new_stop)
                  ELSE /\ stops' = [stops EXCEPT ![position_id] = moved]
                       /\ last' = ret(None)
       /\ UNCHANGED <<restStops>>

UpdateTrailingStopCall ==
    \E position_id \in StopIds \cup {UnknownStopId}, current_price \in StopPrices,
       side \in Sides :
        UpdateTrailingStop(position_id, current_price, side)

RemoveStops(position_id) ==
    /\ stops' = [p \in DOMAIN stops \ {position_id} |-> stops[p]]
    /\ last' = [op |-> "remove_stops", position_id |-> position_id]
    /\ UNCHANGED <<restStops>>

RemoveStopsCall == \E position_id \in StopIds : RemoveStops(position_id)

----------------------------------------------------------------------------
(* datafeed/ohlcv.py: OHLCVFeed.  A table is the list of its rows in index   *)
(* order; a row keeps its timestamp and, in place of the candle's prices,    *)
(* the number of the get_ohlcv call that returned it.                        *)

lookback_bars == MaxBars
FeedSymbols == {"BTC/USDT"}
FeedTimes == 1..MaxTime

\* what get_ohlcv can return: any list of up to MaxCandles candles
CandleLists == UNION {[1..k -> FeedTimes] : k \in 0..MaxCandles}

\* how the awaited get_ohlcv call ends
Fetches == {[kind |-> "return", candles |-> c] : c \in CandleLists}
              \cup {[kind |-> e, candles |-> <<>>] : e \in {"error", "cancelled"}}

FeedInit ==
    /\ feed_data = <<>>
    /\ feed_fetches = 0

RECURSIVE Insert(_, _)
\* row put behind the rows of a sorted list that are not later than it
Insert(row, sorted) ==
    IF sorted = <<>> THEN <<row>>
    ELSE IF Head(sorted).timestamp <= row.timestamp
    THEN <<Head(sorted)>> \o Insert(row, Tail(sorted))
    ELSE <<row>> \o sorted

RECURSIVE SortIndex(_)
\* DataFrame.sort_index(): rows in timestamp order, equal timestamps kept in order
SortIndex(rows) ==
    IF rows = <<>> THEN <<>>
    ELSE Insert(rows[Len(rows)], SortIndex(SubSeq(rows, 1, Len(rows) - 1)))

RECURSIVE DropDuplicates(_)
\* df[~df.index.duplicated(keep='last')]
DropDuplicates(rows) ==
    IF rows = <<>> THEN <<>>
    ELSE IF \E j \in 2..Len(rows) : rows[j].timestamp = rows[1].timestamp
    THEN DropDuplicates(Tail(rows))
    ELSE <<Head(rows)>> \o DropDuplicates(Tail(rows))

\* df.iloc[-n:] for n > 0
LastRows(rows, n) ==
    IF Len(rows) > n THEN SubSeq(rows, Len(rows) - n + 1, Len(rows)) ELSE rows

\* the merge branch: concat, drop duplicates, sort, trim to the lookback
Merge(table, df) ==
    LET merged == SortIndex(DropDuplicates(table \o df))
    IN IF Len(merged) > lookback_bars THEN LastRows(merged, lookback_bars) ELSE merged

UpdateSymbol(symbol, initial, fetch) ==
    LET n == feed_fetches + 1
        df == SortIndex([i \in DOMAIN fetch.candles |->
                            [timestamp |-> fetch.candles[i], fetched |-> n]])
        has_data == symbol \in DOMAIN feed_data /\ feed_data[symbol] # <<>>
        table == IF has_data THEN Merge(feed_data[symbol], df) ELSE df
    IN /\ feed_fetches < MaxFetches
       /\ feed_fetches' = n
       /\ IF fetch.kind = "return" /\ fetch.candles # <<>>
          THEN feed_data' = [s \in DOMAIN feed_data \cup {symbol} |->
                                IF s = symbol THEN table ELSE feed_data[s]]
          ELSE UNCHANGED feed_data
       /\ last' = [op |-> "update_symbol", symbol |-> symbol, initial |-> initial,
                   fetch |-> fetch, fetched |-> n,
                   raised |-> IF fetch.kind = "return" \/ Caught(fetch.kind)
                              THEN "none" ELSE fetch.kind]
       /\ UNCHANGED <<restFeed>>

UpdateSymbolCall ==
    \E symbol \in FeedSymbols, initial \in BOOLEAN, fetch \in Fetches :
        UpdateSymbol(symbol, initial, fetch)

\* the objects other than RiskLimits after construction
InitOthers ==
    /\ now = StartOfRun
    /\ ticks = 0
    /\ last = NoCall
    /\ CBInit
    /\ PBInit
    /\ DBInit
    /\ RTInit
    /\ SessionInit
    /\ StopsInit
    /\ FeedInit
    /\ TasksInit

\* the objects after construction
InitObjects == InitOthers /\ RLInit

Init ==
    /\ InitObjects
    /\ RBIdle
    /\ ScriptIdle
    /\ MaskIdle

Next ==
    \/ CheckDrawdownCall
    \/ RecordFailedOrder
    \/ ManualKillSwitch
    \/ CanTradeCall
    \/ GetStatus
    \/ ResetCall
    \/ TickCB

Spec == Init /\ [][Next]_vars

InitBroker == Init /\ max_failed_orders_per_hour = MaxFailedThreshold

NextBroker ==
    \/ CreateMarketOrderCall
    \/ GetBalance

SpecBroker == InitBroker /\ [][NextBroker]_vars

InitLimits == Init /\ max_failed_orders_per_hour = MaxFailedThreshold

NextLimits ==
    \/ CanPlaceOrderCall
    \/ RecordTradeCall
    \/ UpdatePositionExposureCall
    \/ TickRL

SpecLimits == InitLimits /\ [][NextLimits]_vars

InitRate ==
    /\ InitOthers
    /\ max_failed_orders_per_hour = MaxFailedThreshold
    /\ RLInitAnyDayLimit
    /\ RBIdle
    /\ ScriptIdle
    /\ MaskIdle

NextRate ==
    \/ CanPlaceOrderCall
    \/ RecordTradeCall
    \/ TickRL

\* the rate limits of RiskLimits under either daily limit
SpecRate == InitRate /\ [][NextRate]_vars

InitDb == Init /\ max_failed_orders_per_hour = MaxFailedThreshold

\* the orders table
NextDb ==
    \/ CreateOrderCall
    \/ UpdateOrderStatusCall
    \/ TickDB

SpecDb == InitDb /\ [][NextDb]_vars

\* the positions table
NextPositions ==
    \/ CreatePositionCall
    \/ ClosePositionCall
    \/ TickDB

SpecPositions == InitDb /\ [][NextPositions]_vars

InitSession == Init /\ max_failed_orders_per_hour = MaxFailedThreshold

NextSession ==
    \/ OpenSession
    \/ WorkEnds
    \/ CommitEnds
    \/ Rollback
    \/ Close
    \/ ExitSession

SpecSession == InitSession /\ [][NextSession]_vars

InitRebalancer ==
    /\ InitObjects
    /\ max_failed_orders_per_hour = MaxFailedThreshold
    /\ RBInit
    /\ ScriptIdle
    /\ MaskIdle

NextRebalancer ==
    \/ CalculateRebalanceTradesCall
    \/ ShouldRebalanceCall

SpecRebalancer == InitRebalancer /\ [][NextRebalancer]_vars

InitScripts ==
    /\ InitObjects
    /\ max_failed_orders_per_hour = MaxFailedThreshold
    /\ RBIdle
    /\ ScriptInit
    /\ MaskIdle

NextScripts ==
    \/ CheckFlag
    \/ LoadTradingConfig
    \/ CheckMode
    \/ IdleSleep
    \/ Interrupt

SpecScripts == InitScripts /\ [][NextScripts]_vars

InitMask ==
    /\ InitObjects
    /\ max_failed_orders_per_hour = MaxFailedThreshold
    /\ RBIdle
    /\ ScriptIdle
    /\ MaskInit

NextMask == MaskSecretCall

SpecMask == InitMask /\ [][NextMask]_vars

InitRetry == Init /\ max_failed_orders_per_hour = MaxFailedThreshold

NextRetry ==
    \/ CallWrapped
    \/ CallRouter
    \/ LoopHead
    \/ Invoke
    \/ Handle
    \/ Sleep

SpecRetry == InitRetry /\ [][NextRetry]_vars

\* a call in progress keeps running: every invocation and every sleep returns
SpecRetryFair == SpecRetry /\ WF_vars(RetryStep)

InitStops == Init /\ max_failed_orders_per_hour = MaxFailedThreshold

NextStops ==
    \/ SetStopsCall
    \/ UpdateTrailingStopCall
    \/ RemoveStopsCall

SpecStops == InitStops /\ [][NextStops]_vars

InitFeed == Init /\ max_failed_orders_per_hour = MaxFailedThreshold

NextFeed == UpdateSymbolCall

SpecFeed == InitFeed /\ [][NextFeed]_vars

InitTasks == Init /\ max_failed_orders_per_hour = MaxFailedThreshold

NextTasks ==
    \/ CreateTaskCall
    \/ RunTaskStep

SpecTasks == InitTasks /\ [][NextTasks]_vars

\* the drawdown breaker alone: equity checks, resets and the clock
NextDrawdown ==
    \/ CheckDrawdownCall
    \/ ResetCall
    \/ TickCB

SpecDrawdown == InitBroker /\ [][NextDrawdown]_vars

----------------------------------------------------------------------------
(* Properties of CircuitBreakerManager *)

\* C1: from a fresh manager and over check_drawdown calls of one UTC day, the
\* breaker is triggered, can_trade() is false and check_drawdown returns true
\* exactly from the first call on whose drawdown from H (the maximum of the
\* first starting equity and all current equities so far) reaches
\* max_daily_drawdown; every earlier call returns false and leaves it untriggered.
C1_DrawdownTrips ==
    (dd_pure /\ dd_high # None) =>
        /\ state.triggered = dd_due
        /\ CanTrade(state) = ~dd_due
        /\ (last.op = "check_drawdown" => last.ret = dd_due)

\* a drawdown trip at exactly the 4% limit, measured from a high of 10000
C1_Witness ==
    /\ dd_pure /\ dd_due
    /\ last.op = "check_drawdown" /\ last.ret /\ ~last.was_triggered
    /\ state.triggered /\ state.trigger_reason = "drawdown"
    /\ dd_high = 10000 /\ daily_high_equity = 10000

\* the failed-order records newer than one hour at time t
RecentFailures(t) ==
    Cardinality({i \in DOMAIN fo_records : fo_records[i] > t - SecondsPerHour})

\* C2: record_failed_order on an untriggered breaker trips it (returns true,
\* can_trade() false) exactly when the records strictly within the last hour,
\* the current one included, number at least max_failed_orders_per_hour;
\* records one hour old or older are dropped from the history.
C2_FailedOrdersTrip ==
    (last.op = "record_failed_order" /\ ~last.was_triggered) =>
        /\ last.ret = (RecentFailures(now) >= max_failed_orders_per_hour)
        /\ state.triggered = last.ret
        /\ CanTrade(state) = ~last.ret
        /\ \A i \in DOMAIN failed_orders_history :
              failed_orders_history[i] > now - SecondsPerHour
        /\ Len(failed_orders_history) = RecentFailures(now)

\* a trip in which an earlier record, one hour old, was not counted
C2_Witness ==
    /\ last.op = "record_failed_order" /\ ~last.was_triggered /\ last.ret
    /\ max_failed_orders_per_hour >= 2
    /\ Len(fo_records) > max_failed_orders_per_hour
    /\ Len(failed_orders_history) = max_failed_orders_per_hour

\* the step is a reset call that takes effect
ResetTakesEffect ==
    /\ last'.op = "reset"
    /\ last'.was_triggered
    /\ (last'.force \/ last'.at >= last'.resume_at)

\* C3: a triggered breaker stays triggered, with can_trade() false, across
\* every step that is not a reset taking effect: time passing beyond
\* can_resume_at and any other call leave the triggered flag set.
C3_StaysTriggered ==
    [][(state.triggered /\ ~ResetTakesEffect)
          => (state'.triggered /\ ~CanTrade(state'))]_vars

\* can_trade() answering false after the cooldown has passed
C3_Witness ==
    /\ state.triggered /\ now > state.can_resume_at
    /\ last.op = "can_trade" /\ last.ret = FALSE

\* C4: on a triggered breaker reset(force=True) always clears it; reset(force=False)
\* before can_resume_at changes nothing (trigger_time, trigger_reason,
\* can_resume_at, failed-order history); reset(force=False) at or after
\* can_resume_at clears it.
C4_Reset ==
    [][(last'.op = "reset" /\ last'.was_triggered /\ state.triggered) =>
          IF last'.force \/ now >= state.can_resume_at
          THEN ~state'.triggered /\ CanTrade(state')
          ELSE /\ state' = state
               /\ failed_orders_history' = failed_orders_history]_vars

\* an unforced reset refused during the cooldown, the failed-order history kept
C4_Witness ==
    /\ last.op = "reset" /\ last.was_triggered /\ ~last.force
    /\ last.at < last.resume_at
    /\ state.triggered /\ state.trigger_reason = "failed_orders"
    /\ Len(failed_orders_history) >= 2

----------------------------------------------------------------------------
(* Properties of PaperBroker *)

\* the call that the step made, when the step is a create_market_order call
IsOrderStep == Len(calls') = Len(calls) + 1
ThisCall == calls'[Len(calls')]
ThisExecPrice ==
    ThisCall.price * (IF ThisCall.side = "buy" THEN RateDen + ThisCall.slippage
                      ELSE RateDen - ThisCall.slippage)
\* exec_price * quantity plus the taker fee, times MoneyScale
ThisBuyCost == ThisExecPrice * ThisCall.quantity * (RateDen + FeeNum)

\* C5: a buy whose slippage-adjusted notional plus taker fee exceeds the cash
\* is rejected with filled_quantity 0 and reason insufficient_cash, and leaves
\* cash, ledger and order log as they were.
C5_InsufficientCash ==
    [][(IsOrderStep /\ ThisCall.side = "buy" /\ ThisBuyCost > cash) =>
          /\ last'.ret.status = "rejected"
          /\ last'.ret.filled_quantity = 0
          /\ last'.ret.reject_reason = "insufficient_cash"
          /\ cash' = cash
          /\ positions' = positions
          /\ orders' = orders]_vars

\* a buy refused for lack of cash after an earlier buy was filled
C5_Witness ==
    /\ last.op = "create_market_order"
    /\ last.ret.status = "rejected"
    /\ last.ret.reject_reason = "insufficient_cash"
    /\ Len(calls) = 2 /\ calls[1].status = "filled"
    /\ cash = calls[2].cash_before /\ cash < InitialCash
    /\ calls[2].symbol \notin DOMAIN positions

\* the ledger quantity and average price of a symbol, 0 when it has no entry
HeldQty(pos, symbol) == IF symbol \in DOMAIN pos THEN pos[symbol].quantity ELSE 0
HeldAvg(pos, symbol) == IF symbol \in DOMAIN pos THEN pos[symbol].avg_price ELSE Zero

\* n / d where it has a value; the pair with denominator 0 stands for no value
Quotient(n, d) == IF d = 0 THEN [n |-> n, d |-> 0] ELSE Frac(n, d)

\* what an accepted buy does apart from the average price
BuyEffects ==
    LET c == ThisCall
        id == Len(calls')
    IN /\ last'.ret.status = "filled"
       /\ last'.ret.filled_quantity = c.quantity
       /\ last'.ret.average_fill_price = ThisExecPrice
       /\ ThisExecPrice >= c.price * RateDen
       /\ cash' = cash - ThisBuyCost
       /\ (c.quantity > 0 => cash' < cash)
       /\ c.symbol \in DOMAIN positions'
       /\ positions'[c.symbol].quantity = HeldQty(positions, c.symbol) + c.quantity
       /\ \A s \in DOMAIN positions \ {c.symbol} :
             s \in DOMAIN positions' /\ positions'[s] = positions[s]
       /\ id \notin DOMAIN orders
       /\ DOMAIN orders' = DOMAIN orders \cup {id}
       /\ orders'[id] = last'.ret
       /\ last'.ret.order_id = id
       /\ \A i \in DOMAIN orders : orders'[i] = orders[i]

\* (old_qty * old_avg + q * e) / (old_qty + q)
BlendedAverage ==
    LET old_qty == HeldQty(positions, ThisCall.symbol)
        old_avg == HeldAvg(positions, ThisCall.symbol)
    IN Quotient(old_qty * old_avg.n + ThisCall.quantity * ThisExecPrice * old_avg.d,
                old_avg.d * (old_qty + ThisCall.quantity))

IsAcceptedBuy == IsOrderStep /\ ThisCall.side = "buy" /\ ThisBuyCost <= cash

C7_RoundTrip ==
    \A k \in 2..Len(calls) :
        LET b == calls[k - 1]
            s == calls[k]
            e1 == b.price * (RateDen + b.slippage)
            e2 == s.price * (RateDen - s.slippage)
            after == IF k = Len(calls) THEN cash ELSE calls[k + 1].cash_before
        IN (/\ b.side = "buy" /\ b.status = "filled" /\ ~b.held_before
            /\ s.side = "sell" /\ s.symbol = b.symbol /\ s.quantity = b.quantity)
           => /\ s.status = "filled"
              /\ e1 >= b.price * RateDen /\ e2 <= s.price * RateDen
              /\ after - b.cash_before
                    = b.quantity * (e2 * (RateDen - FeeNum) - e1 * (RateDen + FeeNum))
              /\ (b.quantity > 0 /\ b.price = 50 /\ s.price = 51
                    => after > b.cash_before)
              /\ (k = Len(calls) => b.symbol \notin DOMAIN positions)

----------------------------------------------------------------------------
(* Properties of RiskLimits *)

\* the step is a can_place_order call; Proposed is what it was called with
IsPlaceStep == last'.op = "can_place_order"
Proposed == last'.proposal

\* the trades of the history newer than t - window, counted one by one
TradesWithin(t, window) ==
    Cardinality({i \in DOMAIN trade_history : trade_history[i].timestamp > t - window})

NoRateLimitBinds ==
    /\ TradesWithin(now, 60) < max_trades_per_minute
    /\ TradesWithin(now, SecondsPerDay) < max_trades_per_day

Tracked(symbol) ==
    IF symbol \in DOMAIN position_exposures THEN position_exposures[symbol] ELSE 0

TotalTracked == SumOver(position_exposures, DOMAIN position_exposures)

\* (exposure + v) / equity <= cap for the symbol, and for the whole book
WithinPositionCap ==
    (Tracked(Proposed.symbol) + Proposed.position_value) * 100
        <= max_position_exposure_pct * Proposed.equity
WithinTotalCap ==
    (TotalTracked + Proposed.position_value) * 100
        <= max_total_exposure_pct * Proposed.equity

PositionRejection ==
    ~last'.ret.can_place /\ last'.ret.reason = "Position exposure limit exceeded"

TotalRejection ==
    ~last'.ret.can_place /\ last'.ret.reason = "Total exposure limit exceeded"

\* C8: with no rate limit binding, can_place_order rejects with the reason
\* 'Position exposure limit exceeded' exactly when (tracked exposure of the
\* symbol + v) / equity > max_position_exposure_pct; exposure exactly at the
\* cap is not rejected by this check.
C8_PositionExposure ==
    [][(IsPlaceStep /\ NoRateLimitBinds) =>
          (PositionRejection <=> (Proposed.equity # 0 /\ ~WithinPositionCap))]_vars

\* a proposal that brings its symbol exactly to the 25% cap and is accepted
C8_Witness ==
    /\ last.op = "can_place_order" /\ last.ret.can_place
    /\ last.proposal.symbol \in DOMAIN position_exposures
    /\ last.proposal.equity = 10000
    /\ position_exposures[last.proposal.symbol] = 1500
    /\ last.proposal.position_value = 1000

\* C9: with neither the rate limits nor the per-symbol limit binding,
\* can_place_order rejects with the reason 'Total exposure limit exceeded'
\* exactly when (sum of all tracked exposures + v) / equity >
\* max_total_exposure_pct, and accepts otherwise; the tracked exposures are
\* those last set by update_position_exposure (a value <= 0 removes the symbol).
C9_TotalExposure ==
    [][/\ (IsPlaceStep /\ NoRateLimitBinds /\ Proposed.equity # 0 /\ WithinPositionCap)
             => /\ TotalRejection <=> ~WithinTotalCap
                /\ last'.ret.can_place <=> WithinTotalCap
                /\ position_exposures' = position_exposures
       /\ last'.op = "update_position_exposure" =>
             /\ \A s \in RLSymbols \ {last'.symbol} :
                   /\ (s \in DOMAIN position_exposures') = (s \in DOMAIN position_exposures)
                   /\ s \in DOMAIN position_exposures
                         => position_exposures'[s] = position_exposures[s]
             /\ (last'.symbol \in DOMAIN position_exposures') = (last'.exposure > 0)
             /\ last'.exposure > 0
                   => position_exposures'[last'.symbol] = last'.exposure]_vars

\* tracked exposures 4000 and 3000, and a proposal for a new symbol accepted
\* that brings the total exactly to 8000
C9_Witness ==
    /\ last.op = "can_place_order" /\ last.ret.can_place
    /\ last.proposal = [symbol |-> "SOL/USDT", position_value |-> 1000, equity |-> 10000]
    /\ DOMAIN position_exposures = Symbols
    /\ TotalTracked = 7000

\* whatever is proposed, the per-minute limit is applied first
RateCheckFirst ==
    (IsPlaceStep /\ TradesWithin(now, 60) >= max_trades_per_minute)
        => last'.ret = Verdict(FALSE, "Trade rate limit exceeded")

\* ProbeOrder proposed again more than 60 seconds after the trades that had it
\* refused, no trade recorded since, no exposure limit binding
ProbeRetried ==
    /\ IsPlaceStep
    /\ Proposed = ProbeOrder
    /\ rate_rejected
    /\ \A i \in DOMAIN trade_history : trade_history[i].timestamp < now - 60
    /\ WithinPositionCap
    /\ WithinTotalCap

\* C10 as stated: with max_trades_per_minute or more trades recorded in the
\* last 60 seconds can_place_order returns (false, rate-limit reason) whatever
\* the exposures and equity; once more than 60 seconds have passed since those
\* trades with no further record_trade, the same proposal is accepted provided
\* no exposure limit binds.
C10_RateLimitAsStated ==
    [][RateCheckFirst /\ (ProbeRetried => last'.ret = Verdict(TRUE, ""))]_vars

\* C10: as above, the proposal being accepted provided no exposure limit binds
\* and fewer than max_trades_per_day trades were recorded in the last 24 hours.
C10_RateLimit ==
    [][/\ RateCheckFirst
       /\ (ProbeRetried /\ TradesWithin(now, SecondsPerDay) < max_trades_per_day)
             => last'.ret = Verdict(TRUE, "")]_vars

\* the proposal accepted on retry, the two trades that had it refused still in the history
C10_Witness ==
    /\ last.op = "can_place_order" /\ last.ret.can_place
    /\ last.proposal = ProbeOrder
    /\ rate_rejected
    /\ Len(trade_history) = max_trades_per_minute
    /\ \A i \in DOMAIN trade_history : trade_history[i].timestamp < now - 60

----------------------------------------------------------------------------
(* Properties of db/crud.py *)

TerminalStatuses == {"filled", "cancelled", "rejected", "expired"}

\* C11: an order whose status is filled, cancelled, rejected or expired keeps
\* its status, filled_quantity, average_fill_price, filled_at and cancelled_at
\* across every update_order_status call, whatever target status is requested.
C11_TerminalStatusFinal ==
    [][\A o \in DOMAIN db_orders :
          db_orders[o].status \in TerminalStatuses =>
             /\ db_orders'[o].status = db_orders[o].status
             /\ db_orders'[o].filled_quantity = db_orders[o].filled_quantity
             /\ db_orders'[o].average_fill_price = db_orders[o].average_fill_price
             /\ db_orders'[o].filled_at = db_orders[o].filled_at
             /\ db_orders'[o].cancelled_at = db_orders[o].cancelled_at]_vars

\* C19: once a position is closed its realized_pnl and closed_at never change,
\* whatever later close_position calls are made on it.
C19_ClosedPositionFinal ==
    [][\A p \in DOMAIN db_positions :
          ~db_positions[p].is_open =>
             /\ db_positions'[p].realized_pnl = db_positions[p].realized_pnl
             /\ db_positions'[p].closed_at = db_positions[p].closed_at]_vars

----------------------------------------------------------------------------
(* Properties of retry_with_backoff and OrderRouter *)

\* a call of one decorated function, max_attempts >= 1
IsWrappedCall == rt_call.op = "wrapped" /\ rt_wrappers[1].max_attempts >= 1

C12_Safety ==
    IsWrappedCall =>
        LET w == rt_wrappers[1]
            k == rt_invoked[1]
        IN /\ k <= w.max_attempts
           /\ k = Len(rt_outcomes)
           /\ \A i \in 1..(k - 1) : /\ rt_outcomes[i].kind = "raise"
                                    /\ Matches(rt_outcomes[i].exc, w.exceptions)
           /\ (rt_pending.kind = "raise" => rt_pending.exc # "runtime_error")
           /\ (rt_pc = "done" =>
                  /\ k >= 1
                  /\ rt_pending = [kind |-> rt_outcomes[k].kind,
                                   exc |-> rt_outcomes[k].exc, at |-> k])

\* C12: a function wrapped with max_attempts = n >= 1 is invoked at most n
\* times per call of the wrapper; a further invocation is made only after a
\* matching exception, so the wrapper returns the result of the first
\* invocation that succeeds; after n matching failures it re-raises the last
\* exception; the RuntimeError after the loop is never raised; and every call
\* of the wrapper ends, given that each invocation and each sleep returns.
C12_Retry ==
    /\ []C12_Safety
    /\ ((IsWrappedCall /\ rt_pc # "done") ~> (rt_pc = "done"))

\* three invocations that all failed: the third exception reaches the caller
C12_Witness ==
    /\ IsWrappedCall /\ rt_pc = "done"
    /\ rt_wrappers[1].max_attempts = 3
    /\ rt_invoked[1] = 3
    /\ rt_pending.kind = "raise" /\ rt_pending.at = 3

\* calls that reached the venue during the router call in progress
VenueAttempts == rt_invoked[Len(rt_wrappers)]

\* C13: one execute_market_order or execute_limit_order call makes at most 3
\* attempts to place the order on the venue, for every adapter; one
\* cancel_order call of the router calls the adapter's cancel_order exactly once.
C13_RouterAttempts ==
    /\ rt_call.op \in {"execute_market_order", "execute_limit_order"}
          => VenueAttempts <= router_max_attempts
    /\ (rt_call.op = "cancel_order" /\ rt_pc = "done") => rt_invoked[1] = 1

----------------------------------------------------------------------------
(* Properties of get_db *)

Called(what) == \E i \in DOMAIN session_log : session_log[i] = what

\* a use of get_db has just ended
UseEnded == session_pc = "idle" /\ Len(session_results) > 0

Propagated == session_results[Len(session_results)]

\* the first close comes after every commit and rollback
ClosedLast ==
    /\ Called("close")
    /\ \A i, j \in DOMAIN session_log :
          (session_log[i] = "close" /\ session_log[j] # "close") => j < i

\* the exception raised by the unit of work or by the commit, if any
Raised14 ==
    IF session_work # "ok" THEN <<"work", session_work>>
    ELSE IF session_commit # "ok" THEN <<"commit", session_commit>>
    ELSE NoException

\* C14 as stated: commit is called iff the unit of work completes without
\* raising; whenever the unit of work or the commit raises, rollback is called
\* and the exception propagates; close is called on every exit path, last.
C14_SessionAsStated ==
    UseEnded =>
        /\ Called("commit") <=> (session_work = "ok")
        /\ (Raised14 # NoException) => (Called("rollback") /\ Propagated = Raised14)
        /\ ClosedLast

\* C14: commit is called iff the unit of work completes without raising; if
\* the unit of work or the commit raises an Exception, rollback is called and
\* that exception propagates; if either raises a BaseException that is not an
\* Exception (asyncio.CancelledError), no rollback is called and it propagates;
\* without a raise nothing propagates and no rollback is called; close is
\* called on every exit path, after the commit or rollback.
C14_Session ==
    UseEnded =>
        /\ Called("commit") <=> (session_work = "ok")
        /\ Propagated = Raised14
        /\ Called("rollback") <=> (Raised14[2] = "error")
        /\ ClosedLast

\* a use whose commit failed: commit, rollback, close were called in this order
C14_Witness ==
    /\ UseEnded
    /\ session_work = "ok" /\ session_commit = "error"
    /\ session_log = <<"commit", "rollback", "close", "close">>
    /\ Propagated = <<"commit", "error">>

----------------------------------------------------------------------------
(* Further properties of RiskLimits *)

\* C15: can_place_order answers every input, equity 0 included, with a
\* (bool, reason) pair and never by raising; a refusal carries a non-empty reason.
C15_NeverRaises ==
    last.op = "can_place_order" =>
        /\ last.ret.raised = ""
        /\ (~last.ret.can_place => last.ret.reason # "")

----------------------------------------------------------------------------
(* Properties of Rebalancer *)

RbUnion == DOMAIN current_allocation \cup DOMAIN target_allocation
RbTotal == SumOver(current_allocation, DOMAIN current_allocation)
RbDelta(symbol) == Get(target_allocation, symbol) - Get(current_allocation, symbol)

\* |target - current| / total_current_value < rebalance_threshold_pct, where the
\* quotient exists
DeviationBelow(symbol) ==
    /\ RbTotal # 0
    /\ Abs(RbDelta(symbol)) * 10000 < rebalancer.rebalance_threshold_bps * RbTotal

\* |delta_value| < 2 x |delta_value| x fee_bps / 10000, with cost_aware enabled
CostExcluded(symbol) ==
    /\ rebalancer.cost_aware
    /\ Abs(RbDelta(symbol)) * 10000 < 2 * Abs(RbDelta(symbol)) * rebalancer.fee_bps

\* the entry of an emitted symbol is as claimed
EntryAsClaimed(symbol) ==
    LET entry == trades.ret[symbol]
    IN /\ entry.side = IF Get(target_allocation, symbol) > Get(current_allocation, symbol)
                       THEN "buy" ELSE "sell"
       /\ entry.delta_quantity = Quotient(Abs(RbDelta(symbol)), prices[symbol])

OtherCostAware == [rebalancer EXCEPT !.cost_aware = ~rebalancer.cost_aware]

\* C30: with fee_bps at or below 5000, calculate_rebalance_trades returns the
\* same trade map with cost_aware on as with cost_aware off; and, the
\* threshold being positive, should_rebalance returning false on the same
\* allocations goes with an empty trade map.
C30_CostAware ==
    trades.called =>
        /\ rebalancer.fee_bps <= 5000 =>
              trades.ret = CalculateRebalanceTrades(OtherCostAware, current_allocation,
                                                    target_allocation, prices)
        /\ (/\ rebalancer.rebalance_threshold_bps > 0
            /\ last.op = "should_rebalance"
            /\ ~last.ret) => trades.ret = <<>>

\* at fee_bps = 5000 the cost-aware Rebalancer emits a trade, and
\* should_rebalance says so
C30_Witness ==
    /\ trades.called
    /\ rebalancer.cost_aware
    /\ rebalancer.fee_bps = 5000
    /\ trades.ret # <<>>
    /\ last.op = "should_rebalance"
    /\ last.ret

\* should_rebalance returns false on a negative total although a target is
\* far from the current value, and no trade is emitted
C30_NegativeTotal ==
    /\ trades.called
    /\ RbTotal < 0
    /\ \E symbol \in RbUnion : Abs(RbDelta(symbol)) > 0 /\ Get(prices, symbol) # 0
    /\ last.op = "should_rebalance"
    /\ ~last.ret
    /\ trades.ret = <<>>

----------------------------------------------------------------------------
(* Properties of the scripts *)

Started == script_pc \in {"idle", "stopped"}

\* C17: run_live reaches "LIVE trading started" and its idle loop only with
\* --i-know-what-im-doing on the command line and a loaded config of mode
\* live; without the flag it returns before the config is loaded; with another
\* mode it returns without starting; run_paper reaches its idle loop only with
\* a config of mode paper.
C17_FailClosed ==
    /\ (script = "run_live" /\ Started) => (FlagGiven(argv) /\ config = "live")
    /\ (script = "run_live" /\ ~FlagGiven(argv)) =>
          (config = "none" /\ script_pc \in {"main", "returned"})
    /\ (script = "run_live" /\ config \notin {"none", "live"}) =>
          script_pc \in {"mode", "returned"}
    /\ (script = "run_paper" /\ Started) => config = "paper"
    /\ (script = "run_paper" /\ config \notin {"none", "paper"}) =>
          script_pc \in {"mode", "returned"}

\* run_live in its idle loop, the flag being the second argument
C17_Witness ==
    /\ script = "run_live" /\ script_pc = "idle" /\ sleeps = 2
    /\ argv = <<"--verbose", SafetyFlag>>
    /\ config_file = "live"

----------------------------------------------------------------------------
(* Properties of mask_secret *)

\* C18: mask_secret(secret, N) is "****" when the secret is empty or has at
\* most N characters, and otherwise "****" followed by exactly the last N
\* characters of the secret, for every N >= 0.
C18_MaskSecret ==
    masked.called =>
        masked.ret = IF Len(secret) <= visible_chars THEN Stars
                     ELSE Stars \o SubSeq(secret, Len(secret) - visible_chars + 1,
                                          Len(secret))

----------------------------------------------------------------------------
(* Further properties of CircuitBreakerManager *)

TripSources == {"manual_kill_switch", "check_drawdown", "record_failed_order"}

\* C20: on a triggered breaker a further trip attempt from manual_kill_switch,
\* check_drawdown or record_failed_order changes nothing: trigger_time,
\* trigger_reason, can_resume_at, the failed-order history and the daily
\* high-water mark stay as they are; and in every triggered state
\* can_resume_at = trigger_time + cooldown_minutes.
C20_TripIdempotent ==
    /\ [](state.triggered =>
             state.can_resume_at = state.trigger_time + cooldown_minutes * 60)
    /\ [][(state.triggered /\ last'.op \in TripSources) =>
             /\ state' = state
             /\ failed_orders_history' = failed_orders_history
             /\ daily_high_equity' = daily_high_equity
             /\ last_reset_date' = last_reset_date]_vars

\* the kill switch pulled half an hour or more after a drawdown trip, a failed
\* order being on record
C20_Witness ==
    /\ last.op = "manual_kill_switch" /\ last.was_triggered
    /\ state.triggered /\ state.trigger_reason = "drawdown"
    /\ now > state.trigger_time
    /\ failed_orders_history # <<>>

----------------------------------------------------------------------------
(* Properties of StopLossManager *)

\* the step is an update_trailing_stop call on a record with a trailing distance
IsTrailingStep ==
    /\ last'.op = "update_trailing_stop"
    /\ last'.position_id \in DOMAIN stops
    /\ stops[last'.position_id].trailing_stop_distance # None

\* a is at least b, a missing value counting as below every price
AtLeast(a, b) == b = None \/ (a # None /\ a >= b)

\* a is at most b, a missing value counting as above every price
AtMost(a, b) == b = None \/ (a # None /\ a <= b)

\* C21: an update_trailing_stop call for a long position with a trailing
\* distance never lowers highest_price or stop_loss, and returns the new stop
\* exactly when it raised the stop, None otherwise; for a short position
\* lowest_price and stop_loss never rise, and it returns the new stop exactly
\* when it lowered the stop; a call for an unknown position id or a record
\* without trailing distance returns None and changes nothing.
C21_TrailingStop ==
    [][last'.op = "update_trailing_stop" =>
          IF ~IsTrailingStep
          THEN stops' = stops /\ last'.ret = None
          ELSE LET id == last'.position_id
                   old == stops[id]
                   new == stops'[id]
                   long == last'.side = "buy"
                   moved == new.stop_loss # old.stop_loss
               IN /\ DOMAIN stops' = DOMAIN stops
                  /\ new.trailing_stop_distance = old.trailing_stop_distance
                  /\ new.take_profit = old.take_profit
                  /\ IF long
                     THEN /\ AtLeast(new.highest_price, old.highest_price)
                          /\ AtLeast(new.stop_loss, old.stop_loss)
                          /\ new.lowest_price = old.lowest_price
                     ELSE /\ AtMost(new.lowest_price, old.lowest_price)
                          /\ AtMost(new.stop_loss, old.stop_loss)
                          /\ new.highest_price = old.highest_price
                  /\ IF moved THEN last'.ret = new.stop_loss
                     ELSE last'.ret = None]_vars

\* a long position entered at 10 with a stop at 9: the price 12 raised the stop to 10
C21_Witness ==
    /\ last.op = "update_trailing_stop" /\ last.side = "buy"
    /\ last.position_id \in DOMAIN stops
    /\ last.current_price = 12 /\ last.ret = 10
    /\ stops[last.position_id].highest_price = 12
    /\ stops[last.position_id].stop_loss = 10
    /\ stops[last.position_id].lowest_price = None

----------------------------------------------------------------------------
(* Further properties of PaperBroker *)

\* exec_price * quantity minus the taker fee, times MoneyScale
ThisSellProceeds == ThisExecPrice * ThisCall.quantity * (RateDen - FeeNum)

\* C22: a sell for more than the held quantity, or for a symbol with no ledger
\* entry, is rejected with reason insufficient_position and leaves cash,
\* ledger and order log as they were; an accepted sell credits cash by
\* notional - fee, reduces the ledger quantity by the sold quantity with
\* avg_price unchanged, and removes the entry when nothing remains.
C22_Sell ==
    [][(IsOrderStep /\ ThisCall.side = "sell") =>
          LET c == ThisCall
              remaining == HeldQty(positions, c.symbol) - c.quantity
          IN IF c.symbol \notin DOMAIN positions \/ remaining < 0
             THEN /\ last'.ret.status = "rejected"
                  /\ last'.ret.reject_reason = "insufficient_position"
                  /\ cash' = cash
                  /\ positions' = positions
                  /\ orders' = orders
             ELSE /\ last'.ret.status = "filled"
                  /\ cash' = cash + ThisSellProceeds
                  /\ IF remaining <= 0
                     THEN c.symbol \notin DOMAIN positions'
                     ELSE /\ c.symbol \in DOMAIN positions'
                          /\ positions'[c.symbol].quantity = remaining
                          /\ positions'[c.symbol].avg_price = positions[c.symbol].avg_price
                  /\ \A s \in DOMAIN positions \ {c.symbol} :
                        s \in DOMAIN positions' /\ positions'[s] = positions[s]]_vars

----------------------------------------------------------------------------
(* Properties of OHLCVFeed *)

StrictlyIncreasing(rows) ==
    \A i \in 1..(Len(rows) - 1) : rows[i].timestamp < rows[i + 1].timestamp

\* C23: after every update_symbol call, initial or not and whatever candles
\* the adapter returned, the stored table has strictly increasing timestamps,
\* at most lookback_bars rows, and for a timestamp fetched again the row of
\* the latest fetch; a call in which the adapter raises or returns no candles
\* leaves the table as it was and raises nothing to the caller.
C23_FeedTable ==
    [][last'.op = "update_symbol" =>
          /\ last'.raised = "none"
          /\ IF last'.fetch.kind # "return" \/ last'.fetch.candles = <<>>
             THEN feed_data' = feed_data
             ELSE LET table == feed_data'[last'.symbol]
                      candles == last'.fetch.candles
                  IN /\ StrictlyIncreasing(table)
                     /\ Len(table) <= lookback_bars
                     /\ \A i \in DOMAIN table :
                           (\E j \in DOMAIN candles : candles[j] = table[i].timestamp)
                              => table[i].fetched = last'.fetched]_vars

----------------------------------------------------------------------------
(* Further properties of retry_with_backoff *)

\* the failed invocations that the wrapper has answered with a retry so far
Retried == IF rt_pc \in {"result", "done"} THEN rt_invoked[1] - 1 ELSE rt_invoked[1]

RECURSIVE ExpectedLog(_, _)
\* on_retry(exception, k) then sleep(min(base_delay * exponential_base^(k-1),
\* max_delay)), for k = 1, ..., m in this order
ExpectedLog(w, m) ==
    IF m = 0 THEN <<>>
    ELSE ExpectedLog(w, m - 1) \o
         (IF w.on_retry
          THEN <<[ev |-> "on_retry", depth |-> 1, exc |-> rt_outcomes[m].exc,
                  at |-> m, attempt |-> m]>>
          ELSE <<>>) \o
         <<[ev |-> "sleep", depth |-> 1,
            delay |-> IF base_delay * Pow(exponential_base, m - 1) <= w.max_delay
                      THEN base_delay * Pow(exponential_base, m - 1)
                      ELSE w.max_delay]>>

\* C24: when invocation k < max_attempts raises a matching exception the
\* wrapper calls on_retry(exception, k), where one is given, and then sleeps
\* min(base_delay * exponential_base^(k-1), max_delay) before invocation k+1;
\* on_retry is called once per failed invocation but the max_attempts-th,
\* with attempt numbers 1, 2, ... in order; an exception outside the filter
\* propagates at once, with no callback, no sleep and no further invocation.
C24_OnRetry ==
    IsWrappedCall =>
        LET w == rt_wrappers[1]
        IN /\ Retried <= w.max_attempts - 1
           /\ rt_log = ExpectedLog(w, Retried)
           /\ \A i \in DOMAIN rt_outcomes :
                 (rt_outcomes[i].kind = "raise"
                    /\ ~Matches(rt_outcomes[i].exc, w.exceptions)) =>
                    /\ i = Len(rt_outcomes)
                    /\ rt_pc \in {"result", "done"}
                    /\ rt_invoked[1] = i
           /\ (rt_pc = "sleep") =>
                 /\ rt_outcomes[Retried].kind = "raise"
                 /\ Matches(rt_outcomes[Retried].exc, w.exceptions)

\* three failed invocations with a 1 second cap: two callbacks, two sleeps of
\* 1 second, nothing after the third failure
C24_Witness ==
    /\ IsWrappedCall /\ rt_pc = "done"
    /\ rt_wrappers[1].max_attempts = 3 /\ rt_wrappers[1].on_retry
    /\ rt_wrappers[1].max_delay = 1
    /\ rt_invoked[1] = 3 /\ rt_pending.kind = "raise"
    /\ Len(rt_log) = 4
    /\ rt_log[3].ev = "on_retry" /\ rt_log[3].attempt = 2
    /\ rt_log[4] = [ev |-> "sleep", depth |-> 1, delay |-> 1]

----------------------------------------------------------------------------
(* Properties of concurrent create_market_order tasks *)

FinishedTasks == {t \in DOMAIN tasks : tasks[t].pc = "done"}

\* the orders in which the tasks of D can be taken one after the other
Orderings(D) ==
    {p \in [1..Cardinality(D) -> D] : \A i, j \in DOMAIN p : p[i] = p[j] => i = j}

RECURSIVE Sequential(_, _)
\* the broker and the results after the calls of the tasks p[1], ..., p[n] are
\* made one after the other on a new broker
Sequential(p, n) ==
    IF n = 0 THEN [cash |-> InitialCash, positions |-> <<>>, results |-> <<>>]
    ELSE LET before == Sequential(p, n - 1)
             this == Execute(before, tasks[p[n]].args, p[n])
         IN [cash |-> this.cash, positions |-> this.positions,
             results |-> [t \in DOMAIN before.results \cup {p[n]} |->
                             IF t = p[n] THEN this.result ELSE before.results[t]]]

\* C25: under every interleaving of create_market_order tasks on one broker,
\* cash, ledger and results are those of the finished calls made one after
\* the other in some order, no task ever stands between its check and its
\* ledger update, and cash is never negative.
C25_Serial ==
    /\ cash >= 0
    /\ \A t \in DOMAIN tasks : tasks[t].pc \in {"pending", "done"}
    /\ \E p \in Orderings(FinishedTasks) :
          LET s == Sequential(p, Len(p))
          IN /\ cash = s.cash
             /\ positions = s.positions
             /\ \A t \in FinishedTasks : tasks[t].result = s.results[t]

\* two buys of 0.2 that the cash covers one of: the task started second ran
\* first and was filled, the other one was rejected
C25_Witness ==
    /\ Len(tasks) = 2 /\ FinishedTasks = {1, 2}
    /\ tasks[1].args.side = "buy" /\ tasks[1].args.quantity = 2
    /\ tasks[2].args.side = "buy" /\ tasks[2].args.quantity = 2
    /\ tasks[1].result.status = "rejected"
    /\ tasks[2].result.status = "filled"
    /\ cash < InitialCash

\* C27: in every reachable state of a PaperBroker every entry of the position
\* ledger has quantity > 0, and every entry of the order log has status filled
\* with filled_quantity equal to its quantity: rejected orders are not logged.
C27_Ledger ==
    /\ \A s \in DOMAIN positions : positions[s].quantity > 0
    /\ \A i \in DOMAIN orders :
          /\ orders[i].status = "filled"
          /\ orders[i].filled_quantity = orders[i].quantity
    /\ \A i \in DOMAIN calls : (i \in DOMAIN orders) = (calls[i].status = "filled")

----------------------------------------------------------------------------
(* Properties of the rate limits of RiskLimits *)

\* at time t no more than max_trades_per_minute recorded trades lie in the last
\* 60 seconds and no more than max_trades_per_day in the last 24 hours
WithinRateLimits(t) ==
    /\ TradesWithin(t, 60) <= max_trades_per_minute
    /\ TradesWithin(t, SecondsPerDay) <= max_trades_per_day

\* the step is a record_trade call that does not directly follow a
\* can_place_order call that returned true
UncheckedRecord ==
    /\ last'.op = "record_trade"
    /\ ~(last.op = "can_place_order" /\ last.ret.can_place)

\* C29: can_place_order records no trade and leaves position_exposures alone:
\* all it does to the history is to drop the records that are not of the last
\* 24 hours; and as long as every record_trade call directly follows a
\* can_place_order call that returned true, with no call and no time between,
\* the recorded trades of the last 60 seconds number at most
\* max_trades_per_minute and those of the last 24 hours at most
\* max_trades_per_day, at every moment.
C29_RateInvariant ==
    /\ WithinRateLimits(now)
    /\ [][IsPlaceStep =>
             /\ position_exposures' = position_exposures
             /\ trade_history' = Newer(trade_history, now, SecondsPerDay)
             /\ now' = now]_vars
    /\ [][(WithinRateLimits(now) /\ ~UncheckedRecord) => WithinRateLimits(now)']_vars

\* three trades recorded one by one after an accepted can_place_order, two of
\* them in the current minute: both limits are reached and not exceeded
C29_Witness ==
    /\ last.op = "record_trade"
    /\ TradesWithin(now, 60) = max_trades_per_minute
    /\ TradesWithin(now, SecondsPerDay) = max_trades_per_day
    /\ Len(trade_history) = max_trades_per_day

----------------------------------------------------------------------------
(* Properties of get_status and reset *)

\* C26: get_status() reports as failed_orders_last_hour the number of failed
\* orders recorded within the hour before the call, after any sequence of
\* record_failed_order, reset and time passing.
C26_StatusCount ==
    last.op = "get_status" =>
        last.ret.failed_orders_last_hour = RecentFailures(now)

\* check_drawdown(c, s) is called on an untriggered breaker, on the UTC day
\* of its high-water mark, with c at least max_daily_drawdown below that mark
StillInDrawdown(c, s) ==
    /\ CheckDrawdown(c, s)
    /\ ~state.triggered
    /\ daily_high_equity # None
    /\ last_reset_date # None /\ Date(now) = Date(last_reset_date)
    /\ (daily_high_equity - c) * 10000 >= max_daily_drawdown_bps * daily_high_equity

\* C28: reset leaves the day's high-water equity mark as it is; so after a
\* drawdown trip and a reset that took effect, a check_drawdown call on the
\* same UTC day whose current equity is still at least max_daily_drawdown
\* below the day's high trips the breaker again at once, whatever
\* starting_equity it is given.
C28_ResetKeepsHigh ==
    /\ [][last'.op = "reset" =>
             /\ daily_high_equity' = daily_high_equity
             /\ last_reset_date' = last_reset_date]_vars
    /\ [][\A c \in Equities, s \in Equities :
             StillInDrawdown(c, s) =>
                /\ state'.triggered
                /\ state'.trigger_reason = "drawdown"
                /\ state'.trigger_time = now
                /\ last'.ret /\ ~last'.was_triggered]_vars

\* on the day the run started a reset has taken effect (only check_drawdown
\* trips here, and no midnight has passed) and a later check_drawdown has
\* tripped the breaker again from the high of 10000
C28_Witness ==
    /\ last.op = "check_drawdown" /\ last.ret /\ ~last.was_triggered
    /\ ~dd_pure /\ Date(now) = Date(StartOfRun)
    /\ state.triggered /\ state.trigger_reason = "drawdown"
    /\ daily_high_equity = 10000

====
